---- MODULE Spec2Model ----
(***************************************************************************)
(* Model of the disaster-response intake bot (lost_and_found_bot):         *)
(*   - the persistence facade of src/utils/db_utils.py (primary store      *)
(*     reached by the REST client or by a direct connection, and the       *)
(*     module-level fallback table REPORTS),                               *)
(*   - the conversation engine of src/app.py and                           *)
(*     src/handlers/report_handlers.py (one session per chat user, the     *)
(*     handlers' own in-memory table REPORTS).                             *)
(* Handlers run one at a time (the dispatcher awaits each handler), so     *)
(* every handler is one atomic action.  The outcome of every call to the   *)
(* primary store is chosen by the environment.                             *)
(***************************************************************************)
EXTENDS Integers, Sequences, FiniteSets, TLC

VARIABLES
    dbReady,      \* db_utils.is_db_ready(): REST client configured at import
    primary,      \* the reports table of the primary store, keyed by report_id
    dbREPORTS,    \* db_utils.REPORTS, the facade's in-process fallback table
    hREPORTS,     \* report_handlers.REPORTS, the handlers' in-memory table
    state,        \* conversation state of each user's session
    user_data,    \* context.user_data (scratch data) of each user's session
    out,          \* what the last operation returned / replied
    shown,        \* report ids finalize_report has shown to a user, with the report
    intakes,      \* number of report intakes begun (of reports saved) so far
    pg_conn,      \* db_utils.pg_conn, the cached direct connection
    environ,      \* os.environ: the connection settings that are set
    call,         \* the handler the dispatcher is running, inside get_postgres_connection
    pending,      \* users whose update waits for the dispatcher
    relay         \* the calls of save_report and of the publication, in order

vars == <<dbReady, primary, dbREPORTS, hREPORTS, state, user_data, out, shown, intakes,
          pg_conn, environ, call, pending, relay>>

----------------------------------------------------------------------------
(* Bounds of the model *)

NumUsers == 2
Users == 1..NumUsers

(* The users 1..NumReporters file reports, every user looks reports up   *)
(* and updates them; a behaviour begins at most MaxIntakes report intakes. *)
NumReporters == 1
Reporters == 1..NumReporters
MaxIntakes == 1

(* Report ids as generated by collect_data / collect_contact_info:         *)
(* PREFIX-XXXXXX, upper case.  A user may type an id in any letter case.   *)
UpperIds == {"YGN-A1B2C3", "OTHR-A1B2C3"}
LowerIds == {"ygn-a1b2c3", "othr-a1b2c3"}
IdTexts == UpperIds \cup LowerIds

(* str.upper() on the id texts of the model *)
ToUpper(t) ==
    CASE t = "ygn-a1b2c3" -> "YGN-A1B2C3"
      [] t = "othr-a1b2c3" -> "OTHR-A1B2C3"
      [] t = "ygn" -> "YGN"
      [] t = "othr" -> "OTHR"
      [] OTHER -> t

(* the six hexadecimal digits str(uuid.uuid4())[:6].upper() may produce *)
Suffixes == {"A1B2C3"}

(* an id without str.upper() on the prefix *)
NewIdAsTyped(prefix, sfx) == IF prefix = "" THEN sfx \o "D4" ELSE prefix \o "-" \o sfx

(* f"{prefix.upper()}-{str(uuid.uuid4())[:6].upper()}", or eight digits   *)
(* when there is no prefix (collect_data 280-284, collect_contact_info    *)
(* 1783-1787)                                                             *)
NewId(prefix, sfx) == IF prefix = "" THEN sfx \o "D4" ELSE ToUpper(prefix) \o "-" \o sfx

ReportTypes == {"Missing Person (Earthquake)", "Found Person (Earthquake)",
                "Request Rescue", "Offer Help"}

Urgencies == {"Critical (Medical Emergency)", "High (Trapped/Missing)",
              "Medium (Safe but Separated)", "Low (Information Only)"}

Statuses == {"Still Missing", "Found", "Hospitalized", "Deceased", "Other"}

None == "None"          \* Python None
NoKey == "<no key>"     \* the dictionary has no such key

----------------------------------------------------------------------------
(* Records of the stores *)

(* A row of the reports table / an entry of a fallback table.  A field the *)
(* dictionary does not have is NoKey.                                      *)
Row(id, type, data, urg, pid, purl, ppath, loc, uid, status) ==
    [report_id |-> id, report_type |-> type, all_data |-> data, urgency |-> urg,
     photo_id |-> pid, photo_url |-> purl, photo_path |-> ppath,
     location |-> loc, user_id |-> uid, status |-> status]

(* The details block all_data: the text of a free-form submission, or the   *)
(* block collect_contact_info compiles from form_data: the fields that     *)
(* were filled in (the others render as N/A) and the coordinate line.      *)
AllData(kind, fields, coords) == [kind |-> kind, fields |-> fields, coords |-> coords]

EmptyData == AllData("", {}, "")     \* the empty string ''

NullRow == Row(None, None, EmptyData, None, None, None, None, None, 0, None)

(* dict.get(key, default) on a field that may be missing *)
GetOr(v, default) == IF v = NoKey THEN default ELSE v

(* Python truthiness of a status value: None, '' and a missing key are falsy *)
Falsy(v) == v \in {None, NoKey, ""}

----------------------------------------------------------------------------
(* The persistence facade, src/utils/db_utils.py.  Each operator computes  *)
(* the stores after the call and the value returned, from the stores       *)
(* before the call and the outcomes of the calls to the primary store.     *)

(* Outcomes of one REST insert: the row is inserted and returned; the      *)
(* response holds no rows; the call raises; the row is inserted but the    *)
(* call raises (the response is lost, a timeout).                          *)
RestInsertOutcomes == {"ok", "norows", "raise", "lost"}
(* Outcomes of the direct-connection path: no connection; the insert       *)
(* returns the row; it returns nothing; it raises.                         *)
PgInsertOutcomes == {"none", "ok", "norows", "raise"}

(* The outcomes of the two inserts of one save_report call: the direct   *)
(* connection is tried only when the REST insert raised.                 *)
SaveOutcomes ==
    {o \in RestInsertOutcomes \X PgInsertOutcomes : o[1] \in {"ok", "norows"} => o[2] = "none"}

(* report_id is UNIQUE in the table: inserting an id that is present raises *)
InsertOutcome(P, id, o) == IF id \in DOMAIN P /\ o \in {"ok", "lost"} THEN "raise" ELSE o

Put(T, id, row) == [k \in DOMAIN T \cup {id} |-> IF k = id THEN row ELSE T[k]]

(* the dictionary `data` of save_report, lines 405-419: status defaults to *)
(* 'Still Missing'                                                         *)
RestRow(rd, uid) ==
    Row(rd.report_id, rd.report_type, rd.all_data, rd.urgency, rd.photo_id,
        rd.photo_url, rd.photo_path, GetOr(rd.location, "Unknown"), uid,
        GetOr(rd.status, "Still Missing"))

(* the row the direct INSERT of lines 477-499 leaves: status is not among  *)
(* the inserted columns, so the column default 'Still Missing' applies     *)
PgRow(rd, uid) ==
    Row(rd.report_id, rd.report_type, rd.all_data, rd.urgency, rd.photo_id,
        rd.photo_url, rd.photo_path, GetOr(rd.location, "Unknown"), uid,
        "Still Missing")

(* the entry written to REPORTS by lines 540-554 and 561-575: no status key. *)
(* Lines 440-455 mean to write one with "status", but read the undefined    *)
(* name report_date: the NameError is caught at line 558 and lines 561-575  *)
(* write the entry instead.                                                 *)
FallbackRow(rd, uid) ==
    Row(rd.report_id, rd.report_type, rd.all_data, rd.urgency, rd.photo_id,
        rd.photo_url, rd.photo_path, GetOr(rd.location, "Unknown"), uid,
        NoKey)

(* save_report(report_data, telegram_user), lines 396-577.                 *)
(* Result: [P, R: the stores after, ret: "record" | "None", rec: the       *)
(* record returned, path: the return statement taken].  The function has   *)
(* no path that raises for a report that has its four mandatory keys.      *)
SaveReport(P, R, ready, rd, uid, rest, pg) ==
    LET id == rd.report_id
        r  == IF ready THEN InsertOutcome(P, id, rest) ELSE "skip"
        P1 == IF r \in {"ok", "lost"} THEN Put(P, id, RestRow(rd, uid)) ELSE P
        g  == InsertOutcome(P1, id, pg)
    IN  IF r = "ok" THEN       \* line 425
            [P |-> P1, R |-> R, ret |-> "record", rec |-> RestRow(rd, uid), path |-> "rest"]
        ELSE IF r = "norows" THEN      \* line 428
            [P |-> P, R |-> R, ret |-> "None", rec |-> NullRow, path |-> "norows"]
        ELSE IF g = "ok" THEN      \* line 536
            [P |-> Put(P1, id, PgRow(rd, uid)), R |-> R,
             ret |-> "record", rec |-> PgRow(rd, uid), path |-> "direct"]
        ELSE  \* no connection, nothing returned, or an exception
            [P |-> P1, R |-> Put(R, id, FallbackRow(rd, uid)),
             ret |-> "record", rec |-> FallbackRow(rd, uid), path |-> "fallback"]

(* Outcomes of a REST read *)
RestReadOutcomes == {"ok", "raise"}

(* a comparison of ids that respects letter case *)
SameCase(T, text) == {k \in DOMAIN T : k = text}

(* ids of the table that match the text under ILIKE (letter case ignored) *)
ILike(T, text) == {k \in DOMAIN T : ToUpper(k) = ToUpper(text)}

(* get_report(report_id), lines 746-773: [found, rec, src, key]; src and  *)
(* key tell where the record returned lives: a row read from the primary  *)
(* store is a copy, an entry of REPORTS is the stored dictionary itself.  *)
GetReport(P, R, ready, text, rest) ==
    IF ready /\ rest = "ok" /\ ILike(P, text) # {} THEN
        LET k == CHOOSE k \in ILike(P, text) : TRUE
        IN  [found |-> TRUE, rec |-> P[k], src |-> "primary", key |-> k]
    ELSE IF ILike(R, text) # {} THEN
        LET k == CHOOSE k \in ILike(R, text) : TRUE
        IN  [found |-> TRUE, rec |-> R[k], src |-> "fallback", key |-> k]
    ELSE
        [found |-> FALSE, rec |-> NullRow, src |-> "none", key |-> ""]

(* Outcomes of the calls update_report_status_in_db makes *)
RestUpdateOutcomes == {"ok", "norows", "raise"}
PgUpdateOutcomes == {"none", "ok", "raise"}

(* The outcomes of the calls of one update_report_status_in_db call: the *)
(* ownership query, the REST update (made when the query answered) and   *)
(* the direct connection (tried when a REST call raised).                *)
UpdateOutcomes ==
    {o \in RestReadOutcomes \X RestUpdateOutcomes \X PgUpdateOutcomes :
        /\ o[1] = "raise" => o[2] = "ok"
        /\ (o[1] = "ok" /\ o[2] # "raise") => o[3] = "none"}

(* lines 793-794: a missing or placeholder status becomes 'Still Missing' *)
NormalStatus(status) ==
    IF Falsy(status) \/ status \in {"No status set", "N/A"} THEN "Still Missing" ELSE status

SetStatus(T, id, s) == [T EXCEPT ![id].status = s]

(* the ownership query: eq("report_id", id).eq("user_id", uid) *)
OwnedIn(T, id, uid) == id \in DOMAIN T /\ T[id].user_id = uid

(* lines 796-818: the REST path.  verify and update are the outcomes of    *)
(* the two REST calls.  done = FALSE: the call raised, fall through.       *)
RestUpdate(P, R, id, s, uid, verify, update) ==
    IF verify = "raise" THEN [done |-> FALSE, P |-> P, R |-> R, ret |-> FALSE, path |-> "error"]
    ELSE IF ~OwnedIn(P, id, uid) THEN [done |-> TRUE, P |-> P, R |-> R, ret |-> FALSE, path |-> "rest"]
    ELSE IF update = "raise" THEN [done |-> FALSE, P |-> P, R |-> R, ret |-> FALSE, path |-> "error"]
    ELSE IF update = "norows" THEN [done |-> TRUE, P |-> P, R |-> R, ret |-> FALSE, path |-> "rest no rows"]
    ELSE [done |-> TRUE, P |-> SetStatus(P, id, s),
          R |-> IF id \in DOMAIN R THEN SetStatus(R, id, s) ELSE R,
          ret |-> TRUE, path |-> "rest"]

(* lines 825-838: no connection, the in-memory table is the last resort *)
MemoryUpdate(P, R, id, s, uid) ==
    IF OwnedIn(R, id, uid)
    THEN [P |-> P, R |-> SetStatus(R, id, s), ret |-> TRUE]
    ELSE [P |-> P, R |-> R, ret |-> FALSE]

(* lines 840-868: the direct connection *)
PgUpdate(P, R, id, s, uid) ==
    IF OwnedIn(P, id, uid)
    THEN [P |-> SetStatus(P, id, s), R |-> R, ret |-> TRUE]
    ELSE [P |-> P, R |-> R, ret |-> FALSE]

(* update_report_status_in_db(report_id, status, user_id), lines 789-872: *)
(* [P, R: the stores after, ret: the boolean returned, path: the branch   *)
(* that returned]                                                         *)
UpdateStatusInDb(P, R, ready, id, status, uid, verify, update, pg) ==
    LET s == NormalStatus(status)
        a == RestUpdate(P, R, id, s, uid, verify, update)
        m == MemoryUpdate(P, R, id, s, uid)
        d == PgUpdate(P, R, id, s, uid)
    IN  IF ready /\ a.done THEN [P |-> a.P, R |-> a.R, ret |-> a.ret, path |-> a.path]
        ELSE IF pg = "none" THEN [P |-> m.P, R |-> m.R, ret |-> m.ret, path |-> "memory"]
        ELSE IF pg = "raise" THEN [P |-> P, R |-> R, ret |-> FALSE, path |-> "error"]
        ELSE [P |-> d.P, R |-> d.R, ret |-> d.ret, path |-> "direct"]

----------------------------------------------------------------------------
(* Scratch data: context.user_data of one session.  keys is the set of     *)
(* keys the dictionary holds; a field whose key is absent holds its        *)
(* default below.  form and coords are form_data: the field names filled   *)
(* in, and form_data['exact_coordinates'] ("" when that key is absent).    *)
(* photo_path is set and cleared together with photo_url (photo, lines     *)
(* 593-638) and is read nowhere else, so photo_url stands for both.        *)
(* fresh is no key of the dictionary: it tells which of the keys           *)
(* finalize_report reads were written since the intake in progress began.  *)

(* the keys of the scratch data finalize_report builds report_data from,   *)
(* lines 451-461                                                           *)
ReportKeys ==
    {"report_id", "report_type", "all_data", "urgency", "photo_id", "photo_url", "location"}

EmptyUD ==
    [keys |-> {}, fresh |-> {}, in_conversation |-> FALSE, report_type |-> "", location |-> "", case_prefix |-> "",
     form_data |-> FALSE,
     form |-> {}, coords |-> "", all_data |-> EmptyData, report_id |-> "",
     urgency |-> "", photo_id |-> "", photo_url |-> "",
     contact_report_id |-> "", contact_user_id |-> 0, updating_report |-> FALSE,
     updating_report_id |-> ""]

Has(d, k) == k \in d.keys

(* d[k] = v *)
SetKey(d, k, v) ==
    [d EXCEPT !.keys = @ \cup {k}, ![k] = v, !.fresh = @ \cup ({k} \cap ReportKeys)]

(* del d[k] / d.pop(k, None) *)
DelKey(d, k) == [d EXCEPT !.keys = @ \ {k}, ![k] = EmptyUD[k], !.fresh = @ \ {k}]

(* d.get(k, default) *)
GetKey(d, k, default) == IF Has(d, k) THEN d[k] ELSE default

(* clearing that forgets nothing *)
KeepEverything(d) == d

(* clearing that forgets the marker too *)
ClearWithMarker(d) == EmptyUD

(* context.user_data.clear() of send_message_to_submitter (line 911):     *)
(* every key is removed, the marker too                                   *)
ClearEverything(d) == EmptyUD

(* the loop of cancel (app.py 372-374) and of finalize_report (532-534):   *)
(* every key but in_conversation is popped                                 *)
ClearButMarker(d) ==
    [EmptyUD EXCEPT !.keys = d.keys \cap {"in_conversation"},
                    !.in_conversation = d.in_conversation]

(* Conversation states (src/config/states.py and the names app.py imports); *)
(* END is ConversationHandler.END: no conversation is active (Idle).        *)
IntakeStates ==
    {"CHOOSING_LOCATION", "COLLECT_EXACT_LOCATION", "COLLECT_CUSTOM_COORDINATES",
     "COLLECTING_DATA", "COLLECT_NAME", "COLLECT_AGE", "COLLECT_GENDER",
     "COLLECT_DESCRIPTION", "COLLECT_LAST_SEEN_LOCATION", "COLLECT_LAST_SEEN_TIME",
     "COLLECT_MEDICAL_INFO", "COLLECT_CONTACT_INFO", "COLLECT_PEOPLE_COUNT",
     "COLLECT_INJURIES", "COLLECT_BUILDING_CONDITION", "COLLECT_RELATIONSHIP",
     "COLLECT_CURRENT_LOCATION", "COLLECT_HELP_TYPE", "COLLECT_RESOURCES",
     "COLLECT_AVAILABILITY", "SELECT_URGENCY", "PHOTO"}

LookupStates ==
    {"SEARCHING_REPORT", "SEARCH_MISSING_PERSON", "SEND_MESSAGE_TO_REPORTER",
     "SEND_MESSAGE", "DESCRIPTION", "UPDATE_REPORT_STATUS", "CHOOSE_STATUS"}

ConvStates == {"CHOOSING_REPORT_TYPE"} \cup IntakeStates \cup LookupStates

(* The last operation: who called it with which argument, what it       *)
(* returned or replied, and the path it took through the stores.         *)
Out(op, uid, arg, ret, path) ==
    [op |-> op, uid |-> uid, arg |-> arg, ret |-> ret, path |-> path]

----------------------------------------------------------------------------
(* The conversation engine: the handlers app.py registers on the           *)
(* ConversationHandler (lines 616-728), one action per handler.            *)

(* The conversation and the facade are followed handler by handler: the  *)
(* outcome of a direct connection is an input of the handler, and the    *)
(* connection itself (SpecConnect, below) stays as it is.                *)
ConnectionUnchanged == UNCHANGED <<pg_conn, environ, call, pending>>

(* the handler returned state st and left the scratch data d *)
Session(u, st, d) ==
    /\ state' = [state EXCEPT ![u] = st]
    /\ user_data' = [user_data EXCEPT ![u] = d]
    /\ UNCHANGED intakes
    /\ ConnectionUnchanged

(* the same for the handler that begins an intake: the behaviour counts *)
(* its intakes, at most limit of them, and only a reporter begins one;  *)
(* of the keys of a report the intake has written the report type       *)
BeginIntakeWithin(u, st, d, limit) ==
    /\ u \in Reporters
    /\ intakes < limit
    /\ intakes' = intakes + 1
    /\ state' = [state EXCEPT ![u] = st]
    /\ user_data' = [user_data EXCEPT ![u] = [d EXCEPT !.fresh = {"report_type"}]]
    /\ ConnectionUnchanged

BeginIntake(u, st, d) == BeginIntakeWithin(u, st, d, MaxIntakes)

StoresUnchanged == UNCHANGED <<dbReady, primary, dbREPORTS, hREPORTS, shown, relay>>


Replied(op, u, reply) == out' = Out(op, u, "", reply, "")

(* the entry point /start (app.py 165-177), taken when no conversation is *)
(* active                                                                 *)
start(u) ==
    /\ state[u] = "END"
    /\ Session(u, "CHOOSING_REPORT_TYPE", user_data[u])
    /\ Replied("start", u, "menu")
    /\ StoresUnchanged

(* The eight buttons of the main menu (show_main_menu), by their meaning,  *)
(* and a text that is none of them.                                        *)
TypeButtons == {"Report Missing", "Report Found", "Ask Help", "Give Help"}
MenuTexts == TypeButtons \cup {"Search ID", "Contact", "Search Name", "Update Status", "hello"}

(* report_type_map of choose_report_type, lines 38-46 *)
report_type_map(text) ==
    CASE text = "Report Missing" -> "Missing Person (Earthquake)"
      [] text = "Report Found" -> "Found Person (Earthquake)"
      [] text = "Ask Help" -> "Request Rescue"
      [] text = "Give Help" -> "Offer Help"
      [] OTHER -> text

(* choose_report_type, lines 34-104 *)
choose_report_type(d, text) ==
    SetKey(SetKey(d, "report_type", report_type_map(text)), "in_conversation", TRUE)

(* handle_contact_reporter, app.py 538-552 (matching_reports and          *)
(* contact_report are keys no handler ever sets)                          *)
handle_contact_reporter(d) == DelKey(d, "contact_report_id")

(* handle_menu_selection, app.py 487-526: the handler of                  *)
(* CHOOSING_REPORT_TYPE, in a behaviour of at most limit intakes          *)
HandleMenuSelection(u, text, limit) ==
    /\ state[u] = "CHOOSING_REPORT_TYPE"
    /\ CASE text = "Search ID" -> Session(u, "SEARCHING_REPORT", user_data[u])
         [] text = "Contact" ->
                Session(u, "SEND_MESSAGE_TO_REPORTER", handle_contact_reporter(user_data[u]))
         [] text = "Search Name" -> Session(u, "SEARCH_MISSING_PERSON", user_data[u])
         [] text = "Update Status" -> Session(u, "UPDATE_REPORT_STATUS", user_data[u])
         [] OTHER -> BeginIntakeWithin(u, "CHOOSING_LOCATION",
                                       choose_report_type(user_data[u], text), limit)
    /\ Replied("handle_menu_selection", u, text)
    /\ StoresUnchanged

handle_menu_selection(u, text) == HandleMenuSelection(u, text, MaxIntakes)

(* choose_action, app.py 200-314: the menu handler that routes the       *)
(* contact button to SEND_MESSAGE.  main() registers                     *)
(* handle_menu_selection for CHOOSING_REPORT_TYPE and not this handler;  *)
(* it is part of SpecContact only.  A type button stores the report type *)
(* without the in_conversation marker.                                   *)
choose_action(u, text) ==
    /\ state[u] = "CHOOSING_REPORT_TYPE"
    /\ CASE text = "Search ID" -> Session(u, "SEARCHING_REPORT", user_data[u])
         [] text = "Contact" -> Session(u, "SEND_MESSAGE", user_data[u])
         [] text = "Search Name" -> Session(u, "SEARCH_MISSING_PERSON", user_data[u])
         [] text = "Update Status" -> Session(u, "UPDATE_REPORT_STATUS", user_data[u])
         [] text \in TypeButtons ->
                BeginIntake(u, "CHOOSING_LOCATION",
                            SetKey(user_data[u], "report_type", report_type_map(text)))
         [] OTHER -> Session(u, "CHOOSING_REPORT_TYPE", user_data[u])
    /\ Replied("choose_action", u, text)
    /\ StoresUnchanged

(* Regions the user may pick or type; location_prefixes of choose_location *)
(* (lines 170-204) knows the first, any other text gets the prefix othr.   *)
Locations == {"Yangon", "Somewhere"}
location_prefix(location) == IF location = "Yangon" THEN "ygn" ELSE "othr"

(* choose_location, lines 164-249 *)
choose_location(u, location) ==
    /\ state[u] = "CHOOSING_LOCATION"
    /\ Session(u, "COLLECT_EXACT_LOCATION",
               [SetKey(SetKey(SetKey(user_data[u], "location", location),
                              "case_prefix", location_prefix(location)),
                       "form_data", TRUE)
                   EXCEPT !.form = {}, !.coords = ""])
    /\ Replied("choose_location", u, location)
    /\ StoresUnchanged

(* A handler that raises leaves the conversation state as it was; the     *)
(* error handler (app.py 578-602) only replies.                           *)
Raised(op, u, d) ==
    /\ Session(u, state[u], d)
    /\ Replied(op, u, "error")
    /\ StoresUnchanged

(* context.user_data['form_data'][field] = text, then return next;        *)
(* KeyError when the scratch data has no form_data                        *)
StoreField(op, u, text, field, next) ==
    IF Has(user_data[u], "form_data")
    THEN /\ Session(u, next, [user_data[u] EXCEPT !.form = @ \cup {field}])
         /\ out' = Out(op, u, text, next, "")
         /\ StoresUnchanged
    ELSE Raised(op, u, user_data[u])

(* context.user_data['form_data']['exact_coordinates'] = c, then return next *)
StoreCoordinates(op, u, c, next) ==
    IF Has(user_data[u], "form_data")
    THEN /\ Session(u, next, [user_data[u] EXCEPT !.coords = c])
         /\ Replied(op, u, next)
         /\ StoresUnchanged
    ELSE Raised(op, u, user_data[u])

(* the first question after coordinates were given, lines 125-162 and     *)
(* 1597-1630                                                              *)
AfterCoordinates(report_type) ==
    CASE report_type = "Missing Person (Earthquake)" -> "COLLECT_NAME"
      [] report_type = "Found Person (Earthquake)" -> "COLLECT_NAME"
      [] report_type = "Request Rescue" -> "COLLECT_PEOPLE_COUNT"
      [] report_type = "Offer Help" -> "COLLECT_NAME"
      [] OTHER -> "COLLECTING_DATA"

(* the next question when coordinates were declined, lines 1503-1542 *)
AfterNoCoordinates(report_type) ==
    CASE report_type = "Missing Person (Earthquake)" -> "COLLECT_LAST_SEEN_TIME"
      [] report_type = "Found Person (Earthquake)" -> "COLLECT_CURRENT_LOCATION"
      [] report_type = "Request Rescue" -> "COLLECT_INJURIES"
      [] OTHER -> "COLLECTING_DATA"

(* report_handlers.py imports neither COLLECT_HELP_TYPE nor                *)
(* COLLECT_RESOURCES nor COLLECT_AVAILABILITY from config.states (lines    *)
(* 17-26): a return of one of them raises NameError.  The handler has      *)
(* stored its input by then; the conversation state stays as it was.       *)
StoreFieldThenRaise(op, u, field) ==
    IF Has(user_data[u], "form_data")
    THEN Raised(op, u, [user_data[u] EXCEPT !.form = @ \cup {field}])
    ELSE Raised(op, u, user_data[u])

StoreCoordinatesThenRaise(op, u, c) ==
    IF Has(user_data[u], "form_data")
    THEN Raised(op, u, [user_data[u] EXCEPT !.coords = c])
    ELSE Raised(op, u, user_data[u])

Coordinates == "16.87,96.19"

(* collect_exact_location_coordinates, lines 107-162: a shared location *)
collect_exact_location_coordinates(u) ==
    /\ state[u] = "COLLECT_EXACT_LOCATION"
    /\ StoreCoordinates("collect_exact_location_coordinates", u, Coordinates,
                        AfterCoordinates(GetKey(user_data[u], "report_type", "")))

(* collect_exact_location, lines 1479-1542: a text in COLLECT_EXACT_LOCATION *)
collect_exact_location(u, choice) ==
    /\ state[u] = "COLLECT_EXACT_LOCATION"
    /\ IF choice = "enter coordinates"
       THEN /\ Session(u, "COLLECT_CUSTOM_COORDINATES", user_data[u])
            /\ Replied("collect_exact_location", u, "COLLECT_CUSTOM_COORDINATES")
            /\ StoresUnchanged
       ELSE IF GetKey(user_data[u], "report_type", "") = "Offer Help"
       THEN \* line 1532: return COLLECT_HELP_TYPE
            StoreCoordinatesThenRaise("collect_exact_location", u, "Not provided")
       ELSE StoreCoordinates("collect_exact_location", u, "Not provided",
                             AfterNoCoordinates(GetKey(user_data[u], "report_type", "")))

(* collect_custom_coordinates, lines 1544-1630: two numbers separated by a *)
(* comma are kept, anything else becomes "Not provided"                    *)
collect_custom_coordinates(u, text) ==
    /\ state[u] = "COLLECT_CUSTOM_COORDINATES"
    /\ StoreCoordinates("collect_custom_coordinates", u,
                        IF text = Coordinates THEN Coordinates ELSE "Not provided",
                        AfterCoordinates(GetKey(user_data[u], "report_type", "")))

(* collect_name, lines 1380-1398: a name shorter than two characters is *)
(* asked again                                                          *)
collect_name(u, name) ==
    /\ state[u] = "COLLECT_NAME"
    /\ IF name = "x"
       THEN /\ Session(u, "COLLECT_NAME", user_data[u])
            /\ out' = Out("collect_name", u, name, "COLLECT_NAME", "")
            /\ StoresUnchanged
       ELSE StoreField("collect_name", u, name, "name", "COLLECT_AGE")

(* lines 1400-1418 *)
collect_age(u, text) ==
    state[u] = "COLLECT_AGE" /\ StoreField("collect_age", u, text, "age", "COLLECT_GENDER")

(* lines 1420-1433 *)
collect_gender(u, text) ==
    state[u] = "COLLECT_GENDER" /\ StoreField("collect_gender", u, text, "gender", "COLLECT_DESCRIPTION")

(* lines 1435-1446 *)
collect_description(u, text) ==
    /\ state[u] = "COLLECT_DESCRIPTION"
    /\ StoreField("collect_description", u, text, "description", "COLLECT_LAST_SEEN_LOCATION")

(* lines 1449-1477: asks for the exact location again *)
collect_last_seen_location(u, text) ==
    /\ state[u] = "COLLECT_LAST_SEEN_LOCATION"
    /\ StoreField("collect_last_seen_location", u, text, "last_seen_location", "COLLECT_EXACT_LOCATION")

(* lines 1633-1644 *)
collect_injuries(u, text) ==
    /\ state[u] = "COLLECT_INJURIES"
    /\ StoreField("collect_injuries", u, text, "injuries", "COLLECT_BUILDING_CONDITION")

(* lines 1646-1657 *)
collect_building_condition(u, text) ==
    /\ state[u] = "COLLECT_BUILDING_CONDITION"
    /\ StoreField("collect_building_condition", u, text, "building_condition", "COLLECT_RELATIONSHIP")

(* lines 1659-1670 *)
collect_relationship(u, text) ==
    /\ state[u] = "COLLECT_RELATIONSHIP"
    /\ StoreField("collect_relationship", u, text, "relationship", "COLLECT_CONTACT_INFO")

(* lines 1672-1683 *)
collect_last_seen_time(u, text) ==
    /\ state[u] = "COLLECT_LAST_SEEN_TIME"
    /\ StoreField("collect_last_seen_time", u, text, "last_seen_time", "COLLECT_MEDICAL_INFO")

(* lines 1685-1696 *)
collect_medical_info(u, text) ==
    /\ state[u] = "COLLECT_MEDICAL_INFO"
    /\ StoreField("collect_medical_info", u, text, "medical_info", "COLLECT_CONTACT_INFO")

(* lines 1814-1825 *)
collect_people_count(u, text) ==
    /\ state[u] = "COLLECT_PEOPLE_COUNT"
    /\ StoreField("collect_people_count", u, text, "people_count", "COLLECT_LAST_SEEN_LOCATION")

(* lines 1828-1839 *)
collect_current_location(u, text) ==
    /\ state[u] = "COLLECT_CURRENT_LOCATION"
    /\ StoreField("collect_current_location", u, text, "current_location", "COLLECT_INJURIES")

(* The handlers of the Offer Help questions.  No handler returns their    *)
(* states (the only return of COLLECT_HELP_TYPE, line 1532, raises), so   *)
(* they are no part of Next.                                              *)
(* lines 1841-1852: return COLLECT_RESOURCES raises *)
collect_help_type(u) ==
    /\ state[u] = "COLLECT_HELP_TYPE"
    /\ StoreFieldThenRaise("collect_help_type", u, "help_type")

(* lines 1854-1865: return COLLECT_AVAILABILITY raises *)
collect_resources(u) ==
    /\ state[u] = "COLLECT_RESOURCES"
    /\ StoreFieldThenRaise("collect_resources", u, "resources")

(* lines 1867-1878 *)
collect_availability(u, text) ==
    /\ state[u] = "COLLECT_AVAILABILITY"
    /\ StoreField("collect_availability", u, text, "availability", "COLLECT_CONTACT_INFO")

(* the form_data fields collect_contact_info renders for a report type, *)
(* lines 1709-1766                                                      *)
TypeFields(report_type) ==
    CASE report_type = "Missing Person (Earthquake)" ->
            {"name", "age", "gender", "description", "last_seen_location",
             "last_seen_time", "medical_info", "contact_info"}
      [] report_type = "Found Person (Earthquake)" ->
            {"name", "age", "gender", "description", "last_seen_location",
             "current_location", "injuries", "contact_info"}
      [] report_type = "Request Rescue" ->
            {"people_count", "last_seen_location", "building_condition",
             "injuries", "relationship", "contact_info"}
      [] report_type = "Offer Help" ->
            {"name", "help_type", "resources", "availability", "contact_info"}
      [] OTHER -> {}

(* the block all_data compiled at lines 1706-1773: a field that was not   *)
(* filled in renders as N/A; the coordinate line is there when            *)
(* coordinates were given; an unknown type renders every item of form_data *)
CompileAllData(report_type, form, coords) ==
    IF TypeFields(report_type) # {}
    THEN AllData(report_type, form \cap TypeFields(report_type),
                 IF coords \in {"", "Not provided"} THEN "" ELSE coords)
    ELSE AllData("items", form, coords)

(* collect_contact_info, lines 1698-1811 *)
collect_contact_info(u, sfx) ==
    /\ state[u] = "COLLECT_CONTACT_INFO"
    /\ LET d == user_data[u]
           form == d.form \cup {"contact_info"}
           all_data == CompileAllData(GetKey(d, "report_type", ""), form, d.coords)
           report_id == NewId(GetKey(d, "case_prefix", ""), sfx)
       IN  IF Has(d, "form_data")
           THEN /\ Session(u, "SELECT_URGENCY",
                           SetKey(SetKey([d EXCEPT !.form = form], "all_data", all_data),
                                  "report_id", report_id))
                /\ Replied("collect_contact_info", u, "SELECT_URGENCY")
                /\ StoresUnchanged
           ELSE Raised("collect_contact_info", u, d)

(* A free text, by what validate_report_data looks at *)
Text(len, words, greeting, lines, digit, keyword) ==
    [len |-> len, words |-> words, greeting |-> greeting, lines |-> lines,
     digit |-> digit, keyword |-> keyword]

(* validate_report_data(text, report_type), lines 307-380 *)
validate_report_data(text, report_type) ==
    IF report_type = "" THEN TRUE
    ELSE IF text.len < 25 THEN FALSE
    ELSE IF text.words < 4 THEN FALSE
    ELSE IF text.greeting THEN FALSE
    ELSE IF text.lines >= 2 \/ text.len > 100 THEN TRUE
    ELSE IF text.digit THEN TRUE
    ELSE IF TypeFields(report_type) = {} THEN TRUE
    ELSE IF text.keyword THEN TRUE
    ELSE text.len > 75

(* the free texts a user sends in COLLECTING_DATA *)
FreeTexts == {Text(5, 1, TRUE, 0, FALSE, FALSE), Text(60, 9, FALSE, 0, TRUE, TRUE)}

(* a collect_data that files an entry under the report id as soon as it *)
(* has generated it                                                     *)
collect_data_storing(u, text, sfx) ==
    /\ state[u] = "COLLECTING_DATA"
    /\ LET d == user_data[u]
           report_id == NewId(GetKey(d, "case_prefix", ""), sfx)
       IN  IF ~validate_report_data(text, GetKey(d, "report_type", ""))
           THEN /\ Session(u, "COLLECTING_DATA", d)
                /\ out' = Out("collect_data", u, text, "COLLECTING_DATA", "")
                /\ StoresUnchanged
           ELSE /\ Session(u, "SELECT_URGENCY",
                           SetKey(SetKey(d, "all_data", AllData("text", {}, "")),
                                  "report_id", report_id))
                /\ out' = Out("collect_data", u, text, "SELECT_URGENCY", "")
                /\ hREPORTS' = Put(hREPORTS, report_id, NullRow)
                /\ UNCHANGED <<dbReady, primary, dbREPORTS, shown, relay>>

(* collect_data, lines 252-305 *)
collect_data(u, text, sfx) ==
    /\ state[u] = "COLLECTING_DATA"
    /\ LET d == user_data[u]
           report_id == NewId(GetKey(d, "case_prefix", ""), sfx)
       IN  IF ~validate_report_data(text, GetKey(d, "report_type", ""))
           THEN /\ Session(u, "COLLECTING_DATA", d)
                /\ out' = Out("collect_data", u, text, "COLLECTING_DATA", "")
           ELSE /\ Session(u, "SELECT_URGENCY",
                           SetKey(SetKey(d, "all_data", AllData("text", {}, "")),
                                  "report_id", report_id))
                /\ out' = Out("collect_data", u, text, "SELECT_URGENCY", "")
    /\ StoresUnchanged

(* The buttons of the urgency keyboard (lines 402-407) carry Burmese     *)
(* labels, written here as the tier with the mark (my); the English names  *)
(* of the tiers are keys of urgency_map as well (lines 387-398).           *)
UrgencyLabels == {"Critical (my)", "High (my)", "Medium (my)", "Low (my)"}

(* the stored text, whatever the key: an urgency_map without its values *)
urgency_text(text) == text

(* urgency_map.get(selected_urgency, selected_urgency), lines 387-398, 422 *)
urgency_map(text) ==
    CASE text = "Critical (my)" -> "Critical (Medical Emergency)"
      [] text = "High (my)" -> "High (Trapped/Missing)"
      [] text = "Medium (my)" -> "Medium (Safe but Separated)"
      [] text = "Low (my)" -> "Low (Information Only)"
      [] OTHER -> text

(* select_urgency, lines 382-442: a text that is no key of urgency_map is  *)
(* asked again                                                             *)
select_urgency(u, text) ==
    /\ state[u] = "SELECT_URGENCY"
    /\ IF text \in UrgencyLabels \cup Urgencies
       THEN Session(u, "PHOTO", SetKey(user_data[u], "urgency", urgency_map(text)))
       ELSE Session(u, "SELECT_URGENCY", user_data[u])
    /\ Replied("select_urgency", u, text)
    /\ StoresUnchanged

(* report_data of finalize_report, lines 451-461, as a row owned by u *)
ReportData(d, u) ==
    LET photo_url == GetKey(d, "photo_url", None)
    IN  Row(GetKey(d, "report_id", ""), GetKey(d, "report_type", ""),
            GetKey(d, "all_data", EmptyData), GetKey(d, "urgency", ""),
            GetKey(d, "photo_id", None), photo_url,
            IF photo_url = None THEN None ELSE "photos/file.jpg",
            GetKey(d, "location", "Unknown"), u, "Still Missing")

(* the entry store_report writes to the handlers' table, lines 1144-1158: *)
(* it has no report_id field, its status defaults to 'Still Missing'      *)
StoredRow(d, u) == [ReportData(d, u) EXCEPT !.report_id = NoKey]

(* an id finalize_report showed to its user, with the report it stands for *)
Shown(id, kind, rec) == [id |-> id, kind |-> kind, rec |-> rec]

(* Outcomes of the publication of a report to the broadcast channel      *)
(* (lines 487-497 and 520-528): the message is sent; CHANNEL_ID is empty  *)
(* and nothing is sent (1162-1164); formatting or sending the message     *)
(* raises                                                                 *)
ChannelOutcomes == {"sent", "no channel", "raises"}

(* a publication whose exception reaches its caller *)
publish_unguarded(channel) == IF channel = "raises" THEN "raised" ELSE "returned"

(* the publication as finalize_report runs it: send_report_to_channel     *)
(* logs the exception of a send (1166-1182), and the try/except around    *)
(* the call logs any other (487-497, 520-528)                             *)
send_report_to_channel(channel) == "returned"

(* a call finalize_report makes for the report with this id *)
Call(name, report_id) == [call |-> name, report_id |-> report_id]

(* a finalize_report that publishes again after the first publication *)
FinalizeCallsRepublishing(report_id) ==
    <<Call("save_report", report_id), Call("send_report_to_channel", report_id),
      Call("send_report_to_channel", report_id)>>

(* the calls of finalize_report in the order it makes them: save_report  *)
(* (line 472), and once it has returned the publication, in the branch   *)
(* of a failed save (487-497) or in the branch of a save (520-528)       *)
FinalizeCalls(report_id) ==
    <<Call("save_report", report_id), Call("send_report_to_channel", report_id)>>

(* the keys finalize_report reads from the scratch data d that no handler *)
(* has written since the intake began                                     *)
StaleKeys(d) == {k \in ReportKeys : Has(d, k) /\ k \notin d.fresh}

(* finalize_report, lines 445-557, run on the scratch data d that photo or *)
(* handle_skip_photo left; rest and pg are the outcomes of the inserts of  *)
(* save_report, channel the outcome of the publication.  The reply with    *)
(* the report id is sent before the publication; an exception raised      *)
(* after save_report is answered at lines 544-550 and ends the            *)
(* conversation.                                                           *)
finalize_report(u, d, rest, pg, channel) ==
    LET rd == ReportData(d, u)
        r  == SaveReport(primary, dbREPORTS, dbReady, rd, u, rest, pg)
        published == send_report_to_channel(channel) = "returned"
    IN  /\ primary' = r.P
        /\ dbREPORTS' = r.R
        /\ UNCHANGED dbReady
        /\ relay' = relay \o FinalizeCalls(rd.report_id)
        /\ IF r.ret = "None"
           THEN \* lines 474-505: the handlers' table, nothing is cleared
                /\ hREPORTS' = Put(hREPORTS, rd.report_id, StoredRow(d, u))
                /\ shown' = shown \cup {Shown(rd.report_id, "stored temporarily", rd)}
                /\ IF published
                   THEN /\ Session(u, "CHOOSING_REPORT_TYPE", d)
                        /\ out' = Out("finalize_report", u, StaleKeys(d), "stored temporarily", channel)
                   ELSE /\ Session(u, "END", d)
                        /\ out' = Out("finalize_report", u, StaleKeys(d), "Error saving your report", channel)
           ELSE \* lines 507-543
                /\ UNCHANGED hREPORTS
                /\ shown' = shown \cup {Shown(rd.report_id, "submitted successfully", rd)}
                /\ IF published
                   THEN /\ Session(u, "CHOOSING_REPORT_TYPE",
                                   SetKey(ClearButMarker(d), "in_conversation", TRUE))
                        /\ out' = Out("finalize_report", u, StaleKeys(d), "submitted successfully", channel)
                   ELSE /\ Session(u, "END", d)
                        /\ out' = Out("finalize_report", u, StaleKeys(d), "Error saving your report", channel)

(* Outcomes of receiving a photo: the download fails; the file id alone  *)
(* is kept (no object store, or the upload fails); the upload succeeds.  *)
PhotoOutcomes == {"download fails", "file id only", "uploaded"}

(* photo, lines 559-667 *)
photo(u, o, rest, pg, channel) ==
    /\ state[u] = "PHOTO"
    /\ IF o = "download fails"
       THEN /\ Session(u, "PHOTO", user_data[u])
            /\ Replied("photo", u, "PHOTO")
            /\ StoresUnchanged
       ELSE finalize_report(u,
                SetKey(SetKey(user_data[u], "photo_id", "file-1"), "photo_url",
                       IF o = "uploaded" THEN "https://spaces/photos/file.jpg" ELSE None),
                rest, pg, channel)

(* handle_skip_photo, lines 669-717 *)
handle_skip_photo(u, text, rest, pg, channel) ==
    /\ state[u] = "PHOTO"
    /\ IF text = "skip"
       THEN finalize_report(u, SetKey(user_data[u], "photo_id", None), rest, pg, channel)
       ELSE /\ Session(u, "PHOTO", user_data[u])
            /\ Replied("handle_skip_photo", u, "PHOTO")
            /\ StoresUnchanged

(* search_report, lines 719-822, as a function of the stores:             *)
(* [next, reply, rec: the report displayed, H: the handlers' table after] *)
(* When get_report finds nothing the handler looks the id up in its own   *)
(* table (lines 729-732) and still replies that no report was found.      *)
SearchReport(P, R, H, ready, text, rest) ==
    LET g == GetReport(P, R, ready, text, rest)
        fix == Falsy(g.rec.status) \/ g.rec.status \in {"No status set", "N/A"}
    IN  IF ~g.found
        THEN [next |-> "END", reply |-> "No report found", rec |-> NullRow, H |-> H]
        ELSE [next |-> "CHOOSING_REPORT_TYPE", reply |-> "REPORT DETAILS",
              rec |-> IF fix THEN [g.rec EXCEPT !.status = "Still Missing"] ELSE g.rec,
              H |-> IF fix /\ text \in DOMAIN H THEN SetStatus(H, text, "Still Missing") ELSE H]

search_report(u, text, rest) ==
    /\ state[u] = "SEARCHING_REPORT"
    /\ LET r == SearchReport(primary, dbREPORTS, hREPORTS, dbReady, text, rest)
       IN  /\ Session(u, r.next, user_data[u])
           /\ hREPORTS' = r.H
           /\ Replied("search_report", u, r.reply)
    /\ UNCHANGED <<dbReady, primary, dbREPORTS, shown, relay>>

(* Outcomes of the two queries of search_missing_people (db_utils        *)
(* 691-744): the REST query returns its rows or raises; the direct query *)
(* has no connection, returns its rows, or raises                        *)
SearchOutcomes == RestReadOutcomes \X PgUpdateOutcomes

(* the rows both queries select: the Missing Person rows of the primary  *)
(* store whose details contain the term                                  *)
MissingPeople(P, term) ==
    {k \in DOMAIN P : /\ P[k].report_type = "Missing Person (Earthquake)"
                      /\ term \in P[k].all_data.fields}

(* a search whose queries are not inside try blocks *)
search_unguarded(P, ready, term, rest, pg) ==
    IF ready /\ rest = "raise" THEN [ret |-> "raises", rows |-> {}]
    ELSE IF ready /\ MissingPeople(P, term) # {}
    THEN [ret |-> "list", rows |-> MissingPeople(P, term)]
    ELSE IF pg = "raise" THEN [ret |-> "raises", rows |-> {}]
    ELSE [ret |-> "list", rows |-> IF pg = "ok" THEN MissingPeople(P, term) ELSE {}]

(* search_missing_people(term), lines 691-744: [ret: "list" when a list  *)
(* is returned, "raises" when an exception leaves the function; rows:    *)
(* the ids of the rows in the list].  The rows of the REST query are     *)
(* returned when there are any (694-707); when it found none, raised or  *)
(* was not configured, the rows of the direct query are (712-739); no    *)
(* connection and an exception of the direct query give the empty list   *)
(* (714-716, 742-744).  The fallback tables are not read.                *)
search_missing_people(P, ready, term, rest, pg) ==
    IF ready /\ rest = "ok" /\ MissingPeople(P, term) # {}
    THEN [ret |-> "list", rows |-> MissingPeople(P, term)]
    ELSE [ret |-> "list", rows |-> IF pg = "ok" THEN MissingPeople(P, term) ELSE {}]

(* neither query of a search reaches the primary store: the REST client  *)
(* is not configured (line 694) or its query raises, and there is no     *)
(* direct connection (714) or the direct query raises                    *)
StoreUnreachable(ready, rest, pg) == (~ready \/ rest = "raise") /\ pg \in {"none", "raise"}

(* search_missing_person, lines 920-954; the handler has no try block of *)
(* its own.  The path says whether a query reached the primary store.    *)
search_missing_person(u, term, rest, pg) ==
    /\ state[u] = "SEARCH_MISSING_PERSON"
    /\ LET r == search_missing_people(primary, dbReady, term, rest, pg)
           path == IF StoreUnreachable(dbReady, rest, pg) THEN "unreachable" ELSE "reached"
       IN  IF r.ret = "raises"
           THEN /\ Session(u, state[u], user_data[u])
                /\ out' = Out("search_missing_person", u, term, "error", path)
           ELSE /\ Session(u, IF r.rows = {} THEN "END" ELSE "CHOOSING_REPORT_TYPE",
                           user_data[u])
                /\ out' = Out("search_missing_person", u, term,
                              IF r.rows = {} THEN "No matching reports" ELSE "results",
                              path)
    /\ StoresUnchanged

(* context.user_data.get('matching_reports', []), line 963: no handler    *)
(* writes the key matching_reports (handle_contact_reporter deletes it),  *)
(* so the list is the default                                             *)
matching_reports(d) == << >>

(* the texts a user sends in SEND_MESSAGE_TO_REPORTER: a report id and a  *)
(* number; int(selection) raises ValueError on the first                  *)
SelectionTexts == {"YGN-A1B2C3", "1"}
IsNumber(text) == text = "1"
ToInt(text) == 1

(* choose_report_to_contact, lines 956-998: the handler of                *)
(* SEND_MESSAGE_TO_REPORTER                                               *)
choose_report_to_contact(u, text) ==
    /\ state[u] = "SEND_MESSAGE_TO_REPORTER"
    /\ LET d == user_data[u]
           index == ToInt(text) - 1
       IN  IF ~IsNumber(text)
           THEN /\ Session(u, "SEND_MESSAGE_TO_REPORTER", d)
                /\ out' = Out("choose_report_to_contact", u, text, "Please enter a number", "")
           ELSE IF 0 <= index /\ index < Len(matching_reports(d))
           THEN /\ Session(u, "DESCRIPTION",
                           SetKey(SetKey(d, "contact_report_id",
                                         matching_reports(d)[index + 1].report_id),
                                  "contact_user_id", matching_reports(d)[index + 1].user_id))
                /\ out' = Out("choose_report_to_contact", u, text, "DESCRIPTION", "")
           ELSE /\ Session(u, "SEND_MESSAGE_TO_REPORTER", d)
                /\ out' = Out("choose_report_to_contact", u, text, "Invalid selection", "")
    /\ StoresUnchanged

(* Outcomes of forwarding a message to the submitter *)
DeliveryOutcomes == {"delivered", "fails"}

(* send_message_to_submitter, lines 824-918: the handler of SEND_MESSAGE  *)
(* and of DESCRIPTION.  Its first text is the report id, its second the   *)
(* message, which it hands to bot.send_message once, for the chat of     *)
(* contact_user_id (lines 893-898); whether that raises or not it replies *)
(* to the sender, clears the whole scratch data (line 911) and ends the   *)
(* conversation.                                                          *)
send_message_to_submitter(u, text, rest, delivery) ==
    /\ state[u] \in {"SEND_MESSAGE", "DESCRIPTION"}
    /\ LET d == user_data[u]
           report_id == ToUpper(text)
           g == GetReport(primary, dbREPORTS, dbReady, report_id, rest)
           user_id == IF g.found THEN g.rec.user_id
                      ELSE IF report_id \in DOMAIN hREPORTS THEN hREPORTS[report_id].user_id
                      ELSE 0
       IN  IF ~Has(d, "contact_report_id")
           THEN IF user_id = 0
                THEN /\ Session(u, "END", d)
                     /\ Replied("send_message_to_submitter", u, "not found")
                ELSE /\ Session(u, "DESCRIPTION",
                                SetKey(SetKey(d, "contact_report_id", report_id),
                                       "contact_user_id", user_id))
                     /\ Replied("send_message_to_submitter", u, "DESCRIPTION")
           ELSE /\ Session(u, "END", ClearEverything(d))
                /\ out' = Out("send_message_to_submitter", u,
                              [chat_id |-> d.contact_user_id, text |-> text], delivery, "")
    /\ StoresUnchanged

(* update_report_status, lines 1245-1325: the handler of                  *)
(* UPDATE_REPORT_STATUS.  The report is the one get_report returns, else  *)
(* the entry of the handlers' table; line 1295 writes a default status    *)
(* into that dictionary, which is the stored entry when the report came   *)
(* from an in-memory table.                                               *)
UpdateReportStatus(P, R, H, ready, u, text, rest) ==
    LET report_id == ToUpper(text)
        g == GetReport(P, R, ready, report_id, rest)
        inH == ~g.found /\ report_id \in DOMAIN H
        report == IF g.found THEN g.rec ELSE IF inH THEN H[report_id] ELSE NullRow
        default == Falsy(report.status) \/ report.status = "No status set"
    IN  IF ~g.found /\ ~inH
        THEN [next |-> "END", reply |-> "No report found", id |-> report_id, R |-> R, H |-> H]
        ELSE IF report.user_id # u
        THEN [next |-> "END", reply |-> "not authorized", id |-> report_id, R |-> R, H |-> H]
        ELSE [next |-> "CHOOSE_STATUS", reply |-> "CHOOSE_STATUS", id |-> report_id,
              R |-> IF default /\ g.src = "fallback"
                    THEN SetStatus(R, g.key, "Still Missing") ELSE R,
              H |-> IF default /\ inH
                    THEN SetStatus(H, report_id, "Still Missing") ELSE H]

update_report_status(u, text, rest) ==
    /\ state[u] = "UPDATE_REPORT_STATUS"
    /\ LET d == user_data[u]
           r == UpdateReportStatus(primary, dbREPORTS, hREPORTS, dbReady, u, text, rest)
       IN  /\ Session(u, r.next,
                      IF r.next = "CHOOSE_STATUS"
                      THEN SetKey(SetKey(d, "updating_report", TRUE),
                                  "updating_report_id", r.id)
                      ELSE d)
           /\ Replied("update_report_status", u, r.reply)
           /\ dbREPORTS' = r.R
           /\ hREPORTS' = r.H
    /\ UNCHANGED <<dbReady, primary, shown, relay>>

(* texts a user sends in CHOOSE_STATUS: a button of the status keyboard, *)
(* and two texts that are no button                                      *)
StatusTexts == {"(Found)", "N/A", "unsure"}

(* status_map.get(status_text, status_text), lines 1339-1349 *)
status_map(text) ==
    CASE text = "(Still Missing)" -> "Still Missing"
      [] text = "(Found)" -> "Found"
      [] text = "(Hospitalized)" -> "Hospitalized"
      [] text = "(Deceased)" -> "Deceased"
      [] text = "(Other)" -> "Other"
      [] OTHER -> text

(* choose_status, lines 1327-1379: the handler of CHOOSE_STATUS *)
choose_status(u, text, verify, update, pg) ==
    /\ state[u] = "CHOOSE_STATUS"
    /\ LET d == user_data[u]
           report_id == GetKey(d, "updating_report_id", None)
           r == UpdateStatusInDb(primary, dbREPORTS, dbReady, report_id,
                                 status_map(text), u, verify, update, pg)
       IN  IF report_id = None
           THEN /\ Session(u, "END", d)
                /\ Replied("choose_status", u, "No report selected")
                /\ UNCHANGED <<primary, dbREPORTS>>
           ELSE /\ Session(u, IF r.ret THEN "CHOOSING_REPORT_TYPE" ELSE "END", d)
                /\ Replied("choose_status", u, IF r.ret THEN "updated" ELSE "Failed to update")
                /\ primary' = r.P
                /\ dbREPORTS' = r.R
    /\ UNCHANGED <<dbReady, hREPORTS, shown, relay>>

(* a /cancel that clears the scratch data and leaves the session in the  *)
(* state it was in                                                        *)
cancel_in_place(u) ==
    /\ state[u] \in ConvStates
    /\ Session(u, state[u], ClearButMarker(user_data[u]))
    /\ Replied("cancel", u, "menu")
    /\ StoresUnchanged

(* a /cancel that is answered in the main menu only, as a handler of that *)
(* state would be                                                         *)
cancel_in_menu(u) ==
    /\ state[u] = "CHOOSING_REPORT_TYPE"
    /\ Session(u, "CHOOSING_REPORT_TYPE", ClearButMarker(user_data[u]))
    /\ Replied("cancel", u, "menu")
    /\ StoresUnchanged

(* cancel, app.py 369-377: the fallback /cancel of every conversation state *)
cancel(u) ==
    /\ state[u] \in ConvStates
    /\ Session(u, "CHOOSING_REPORT_TYPE", ClearButMarker(user_data[u]))
    /\ Replied("cancel", u, "menu")
    /\ StoresUnchanged

(* restore_main_menu, app.py 347-367: the fallback /menu of every         *)
(* conversation state; nothing is cleared                                 *)
restore_main_menu(u) ==
    /\ state[u] \in ConvStates
    /\ Session(u, "CHOOSING_REPORT_TYPE", user_data[u])
    /\ Replied("restore_main_menu", u, "menu")
    /\ StoresUnchanged

----------------------------------------------------------------------------
(* The program after start-up: whether the REST client was configured is *)
(* decided at import (db_utils 45-60); the tables are empty, no session  *)
(* has a conversation.                                                   *)

NoRows == [k \in {} |-> NullRow]

(* the environment variables get_postgres_connection depends on          *)
(* (db_utils 48-55, 203-209, 262-268)                                    *)
EnvironVariables == {"DIRECT_PG_HOST", "POSTGRES_HOST", "POSTGRES_PASSWORD"}

(* no handler is running.  Of a running handler: whose update it answers, *)
(* the facade call it makes, the get_postgres_connection calls that call  *)
(* still has to make (their direct_connect arguments), the retry loop it  *)
(* is in, retry_count and current_delay of that loop, the seconds the     *)
(* handler has slept, the outcome of the last test or connection attempt  *)
(* of the current get_postgres_connection call ("live" for a cached       *)
(* connection that answered), and what the last such call returned.       *)
NoCall ==
    [uid |-> 0, op |-> "", todo |-> << >>, loop |-> "", retry_count |-> 0,
     current_delay |-> 0, slept |-> 0, last |-> "", ret |-> ""]

(* pg_conn = None at import (line 62), no update received yet; o is the  *)
(* record of the last operation, h the environment                       *)
InitOf(o, h) ==
    /\ dbReady \in BOOLEAN
    /\ primary = NoRows
    /\ dbREPORTS = NoRows
    /\ hREPORTS = NoRows
    /\ state = [u \in Users |-> "END"]
    /\ user_data = [u \in Users |-> EmptyUD]
    /\ out = o
    /\ shown = {}
    /\ intakes = 0
    /\ pg_conn = None
    /\ environ = h
    /\ call = NoCall
    /\ pending = {}
    /\ relay = << >>

InitWith(h) == InitOf(Out("init", 0, "", "", ""), h)

Init == InitWith(EnvironVariables)

(* the texts a user sends where an urgency, a skip, a name or the answer *)
(* to a guided question is expected: "x" has one character, "hi" is a   *)
(* greeting of two                                                      *)
UrgencyTexts == {"High (my)", "urgent!"}
SkipTexts == {"skip", "later"}
NameTexts == {"Aung Aung", "x", "hi"}
FieldTexts == {"25 years", "hi"}
LocationChoices == {"enter coordinates", "no coordinates"}
CoordinateTexts == {Coordinates, "near the bridge"}
SearchTerms == {"name", "medical_info"}

(* The conversation as app.py registers it, lines 616-728.  The handlers  *)
(* of the states no handler returns are left out: collect_help_type,     *)
(* collect_resources, collect_availability and send_message_to_submitter *)
(* (SEND_MESSAGE, DESCRIPTION).                                          *)
Next ==
    \E u \in Users :
        \/ start(u)
        \/ \E text \in MenuTexts : handle_menu_selection(u, text)
        \/ \E location \in Locations : choose_location(u, location)
        \/ collect_exact_location_coordinates(u)
        \/ \E choice \in LocationChoices : collect_exact_location(u, choice)
        \/ \E text \in CoordinateTexts : collect_custom_coordinates(u, text)
        \/ \E name \in NameTexts : collect_name(u, name)
        \/ \E text \in FieldTexts : collect_age(u, text)
        \/ \E text \in FieldTexts : collect_gender(u, text)
        \/ \E text \in FieldTexts : collect_description(u, text)
        \/ \E text \in FieldTexts : collect_last_seen_location(u, text)
        \/ \E text \in FieldTexts : collect_last_seen_time(u, text)
        \/ \E text \in FieldTexts : collect_medical_info(u, text)
        \/ \E text \in FieldTexts : collect_people_count(u, text)
        \/ \E text \in FieldTexts : collect_injuries(u, text)
        \/ \E text \in FieldTexts : collect_building_condition(u, text)
        \/ \E text \in FieldTexts : collect_relationship(u, text)
        \/ \E text \in FieldTexts : collect_current_location(u, text)
        \/ \E sfx \in Suffixes : collect_contact_info(u, sfx)
        \/ \E text \in FreeTexts, sfx \in Suffixes : collect_data(u, text, sfx)
        \/ \E text \in UrgencyTexts : select_urgency(u, text)
        \/ \E o \in PhotoOutcomes, s \in SaveOutcomes, channel \in ChannelOutcomes :
              photo(u, o, s[1], s[2], channel)
        \/ \E text \in SkipTexts, s \in SaveOutcomes, channel \in ChannelOutcomes :
              handle_skip_photo(u, text, s[1], s[2], channel)
        \/ \E text \in IdTexts, rest \in RestReadOutcomes : search_report(u, text, rest)
        \/ \E term \in SearchTerms, o \in SearchOutcomes :
              search_missing_person(u, term, o[1], o[2])
        \/ \E text \in SelectionTexts : choose_report_to_contact(u, text)
        \/ \E text \in IdTexts, rest \in RestReadOutcomes : update_report_status(u, text, rest)
        \/ \E text \in StatusTexts, o \in UpdateOutcomes :
              choose_status(u, text, o[1], o[2], o[3])
        \/ cancel(u)
        \/ restore_main_menu(u)

Spec == Init /\ [][Next]_vars

----------------------------------------------------------------------------
(* The persistence facade called directly, as finalize_report,           *)
(* search_report, update_report_status and choose_status call it.        *)

(* The report_data a caller passes for user uid under an id: user 1      *)
(* files a compiled missing-person report without a photo, any other     *)
(* user a free-form rescue request with a photo and neither location nor *)
(* status.                                                               *)
ReportOf(uid, id) ==
    IF uid = 1
    THEN Row(id, "Missing Person (Earthquake)",
             AllData("Missing Person (Earthquake)", {"name", "contact_info"}, ""),
             "High (Trapped/Missing)", None, None, None, "Yangon", uid, "Still Missing")
    ELSE Row(id, "Request Rescue", AllData("text", {}, ""),
             "Critical (Medical Emergency)", "file-1",
             "https://spaces/photos/file.jpg", "photos/file.jpg", NoKey, uid, NoKey)

(* the statuses a caller asks for *)
StatusArgs == {"Found", "N/A"}

Bool(b) == IF b THEN "True" ELSE "False"

SessionsUnchanged ==
    /\ UNCHANGED <<dbReady, hREPORTS, state, user_data, shown, relay>>
    /\ ConnectionUnchanged

(* a behaviour of direct calls saves at most MaxSaves reports *)
MaxSaves == 2

save_report(uid, id, rest, pg) ==
    LET r == SaveReport(primary, dbREPORTS, dbReady, ReportOf(uid, id), uid, rest, pg)
    IN  /\ intakes < MaxSaves
        /\ intakes' = intakes + 1
        /\ primary' = r.P
        /\ dbREPORTS' = r.R
        /\ out' = Out("save_report", uid, id, r.ret, r.path)
        /\ SessionsUnchanged

get_report(text, rest) ==
    LET g == GetReport(primary, dbREPORTS, dbReady, text, rest)
    IN  /\ out' = Out("get_report", 0, text, IF g.found THEN "record" ELSE "None", g.src)
        /\ UNCHANGED <<primary, dbREPORTS, intakes>>
        /\ SessionsUnchanged

update_report_status_in_db(id, status, uid, verify, update, pg) ==
    LET r == UpdateStatusInDb(primary, dbREPORTS, dbReady, id, status, uid,
                              verify, update, pg)
    IN  /\ primary' = r.P
        /\ dbREPORTS' = r.R
        /\ out' = Out("update_report_status_in_db", uid, <<id, status>>, Bool(r.ret), r.path)
        /\ UNCHANGED intakes
        /\ SessionsUnchanged

NextStore ==
    \/ \E uid \in Users, id \in UpperIds, s \in SaveOutcomes :
          save_report(uid, id, s[1], s[2])
    \/ \E text \in IdTexts, rest \in RestReadOutcomes : get_report(text, rest)
    \/ \E id \in UpperIds, status \in StatusArgs, uid \in Users, o \in UpdateOutcomes :
          update_report_status_in_db(id, status, uid, o[1], o[2], o[3])

SpecStore == Init /\ [][NextStore]_vars

----------------------------------------------------------------------------
(* The contact relay.  As main() wires the conversation, no handler      *)
(* returns SEND_MESSAGE or DESCRIPTION (handle_contact_reporter leads to *)
(* SEND_MESSAGE_TO_REPORTER, and choose_report_to_contact never finds a  *)
(* result list), so Spec never runs send_message_to_submitter.           *)
(* SpecContact is the conversation with choose_action answering the main *)
(* menu as well; it has the free-form intake, the contact flow and the   *)
(* fallbacks.                                                            *)

ContactMenuTexts == {"Contact", "hello"}

NextContact ==
    \E u \in Users :
        \/ start(u)
        \/ \E text \in ContactMenuTexts : handle_menu_selection(u, text)
        \/ \E text \in ContactMenuTexts : choose_action(u, text)
        \/ \E location \in Locations : choose_location(u, location)
        \/ \E choice \in LocationChoices : collect_exact_location(u, choice)
        \/ \E text \in FreeTexts, sfx \in Suffixes : collect_data(u, text, sfx)
        \/ \E text \in UrgencyTexts : select_urgency(u, text)
        \/ \E text \in SkipTexts, s \in SaveOutcomes, channel \in ChannelOutcomes :
              handle_skip_photo(u, text, s[1], s[2], channel)
        \/ \E text \in SelectionTexts : choose_report_to_contact(u, text)
        \/ \E text \in IdTexts, rest \in RestReadOutcomes, delivery \in DeliveryOutcomes :
              send_message_to_submitter(u, text, rest, delivery)
        \/ cancel(u)
        \/ restore_main_menu(u)

SpecContact == Init /\ [][NextContact]_vars

----------------------------------------------------------------------------
(* Properties of the persistence facade, checked on SpecStore *)

(* the report user uid saved under id, as a lookup has to return it: the  *)
(* fields of report_data, the owner, and the defaults of section 405-419  *)
SameReport(rec, uid, id) ==
    LET r == ReportOf(uid, id)
    IN  /\ rec.report_id = r.report_id
        /\ rec.report_type = r.report_type
        /\ rec.all_data = r.all_data
        /\ rec.urgency = r.urgency
        /\ rec.photo_id = r.photo_id /\ rec.photo_url = r.photo_url
        /\ rec.photo_path = r.photo_path
        /\ rec.location = GetOr(r.location, "Unknown")
        /\ rec.user_id = uid
        /\ rec.status = GetOr(r.status, "Still Missing")

(* C2: save_report never reports failure.  Whenever no insert into the    *)
(* primary store returned the row (the insert raised, it returned no      *)
(* rows, or there was no connection), the call has written the record to  *)
(* the fallback table under its report_id and has returned a record.      *)
C2_SaveNeverReportsFailure ==
    (out.op = "save_report" /\ out.path \notin {"rest", "direct"}) =>
        /\ out.ret = "record"
        /\ out.arg \in DOMAIN dbREPORTS
        /\ dbREPORTS[out.arg].user_id = out.uid

(* C3: when the primary store fails on every call, the record that        *)
(* get_report returns for the id of a report just saved equals that       *)
(* report: id, type, details, urgency, photo reference, location, owner   *)
(* and status.                                                            *)
C3_FallbackRoundTrip ==
    (out.op = "save_report" /\ out.path = "fallback") =>
        LET g == GetReport(primary, dbREPORTS, dbReady, out.arg, "raise")
        IN  g.found /\ SameReport(g.rec, out.uid, out.arg)

(* C4: get_report finds a stored report whatever the letter case of the   *)
(* id typed.  It returns the row of the primary store when the read is    *)
(* answered and holds the id; otherwise (no client, read error, id not    *)
(* in the primary store) it returns the entry of the fallback table; it   *)
(* returns None only when the fallback table has no such id either.       *)
C4_GetReportFindsStored ==
    \A text \in IdTexts, rest \in RestReadOutcomes :
        LET g == GetReport(primary, dbREPORTS, dbReady, text, rest)
            id == ToUpper(text)
            read == dbReady /\ rest = "ok" /\ id \in DOMAIN primary
        IN  /\ read => (g.found /\ g.rec = primary[id])
            /\ (~read /\ id \in DOMAIN dbREPORTS) => (g.found /\ g.rec = dbREPORTS[id])
            /\ (~read /\ id \notin DOMAIN dbREPORTS) => ~g.found

(* a lookup typed in lower case whose primary read raised although the    *)
(* primary store holds the id, and that was answered from the fallback    *)
C4_Witness ==
    /\ out.op = "get_report" /\ out.arg \in LowerIds
    /\ dbReady /\ ToUpper(out.arg) \in DOMAIN primary
    /\ out.ret = "record" /\ out.path = "fallback"

(* the tables that hold a copy of report id *)
Copies(id) ==
    {T \in {primary, dbREPORTS, hREPORTS} : id \in DOMAIN T}

(* what C5 asks of the calls user B makes for report id: the facade call  *)
(* returns False and leaves both stores as they are, whatever the store   *)
(* path; the UpdateStatusById step ends the flow without entering         *)
(* CHOOSE_STATUS, with the authorization message when the lookup found    *)
(* the report, and leaves the in-memory tables as they are                *)
Rejects(id, B) ==
    /\ \A s \in StatusArgs, o \in UpdateOutcomes :
           LET r == UpdateStatusInDb(primary, dbREPORTS, dbReady, id, s, B, o[1], o[2], o[3])
           IN  ~r.ret /\ r.P = primary /\ r.R = dbREPORTS
    /\ \A text \in IdTexts, rest \in RestReadOutcomes :
           ToUpper(text) = id =>
               LET h == UpdateReportStatus(primary, dbREPORTS, hREPORTS, dbReady, B, text, rest)
               IN  /\ h.next = "END"
                   /\ h.reply \in {"not authorized", "No report found"}
                   /\ h.R = dbREPORTS /\ h.H = hREPORTS

(* table T2 holds every report of table T that B does not own, as it was *)
OthersKept(T, T2, B) ==
    \A k \in DOMAIN T : T[k].user_id # B => (k \in DOMAIN T2 /\ T2[k] = T[k])

(* no call user B makes for report id changes a report B does not own *)
SparesOthers(id, B) ==
    /\ \A s \in StatusArgs, o \in UpdateOutcomes :
           LET r == UpdateStatusInDb(primary, dbREPORTS, dbReady, id, s, B, o[1], o[2], o[3])
           IN  OthersKept(primary, r.P, B) /\ OthersKept(dbREPORTS, r.R, B)
    /\ \A text \in IdTexts, rest \in RestReadOutcomes :
           LET h == UpdateReportStatus(primary, dbREPORTS, hREPORTS, dbReady, B, text, rest)
           IN  OthersKept(dbREPORTS, h.R, B) /\ OthersKept(hREPORTS, h.H, B)

(* a report is stored under id and B owns no report stored under id *)
Stranger(id, B) ==
    Copies(id) # {} /\ \A T \in Copies(id) : T[id].user_id # B

(* C5: for every stored report with owner A and every user B other than  *)
(* A, a status change requested by B is rejected, at the UpdateStatusById *)
(* step and in update_report_status_in_db, and the status of the report   *)
(* is unchanged in the primary store and in the in-memory tables.         *)
C5_NonOwnerRejected ==
    \A id \in UpperIds, B \in Users :
        /\ Stranger(id, B) => Rejects(id, B)
        /\ SparesOthers(id, B)

(* the part of C5 about the users who own no report stored under the id *)
StrangerRejected ==
    \A id \in UpperIds, B \in Users : Stranger(id, B) => Rejects(id, B)

(* the copies of report id, and whether uid owns all of them *)
Held(id) == id \in DOMAIN primary \/ id \in DOMAIN dbREPORTS
HeldBy(id, uid) ==
    /\ Held(id)
    /\ id \in DOMAIN primary => primary[id].user_id = uid
    /\ id \in DOMAIN dbREPORTS => dbREPORTS[id].user_id = uid

(* C6: a status update requested by the owner of a report held in the     *)
(* primary store, in the fallback table or in both returns True, and a    *)
(* get_report made after it shows the new status.  Calls in which a       *)
(* primary-store call raised or the update statement matched no row are   *)
(* left out.                                                              *)
C6_OwnerUpdateSucceeds ==
    [][(/\ out'.op = "update_report_status_in_db"
        /\ out'.path \in {"rest", "memory", "direct"}
        /\ HeldBy(out'.arg[1], out'.uid))
       => (/\ out'.ret = "True"
           /\ LET g == GetReport(primary', dbREPORTS', dbReady', out'.arg[1], "ok")
               IN  g.found /\ g.rec.status = NormalStatus(out'.arg[2]))]_vars

(* C7: after a successful update of a report that has a copy in the       *)
(* primary store and a copy in the fallback table, both copies carry the  *)
(* new status, whichever path performed the update.                       *)
C7_BothCopiesUpdated ==
    [][(/\ out'.op = "update_report_status_in_db"
        /\ out'.ret = "True"
        /\ out'.arg[1] \in DOMAIN primary
        /\ out'.arg[1] \in DOMAIN dbREPORTS)
       => (/\ primary'[out'.arg[1]].status = NormalStatus(out'.arg[2])
           /\ dbREPORTS'[out'.arg[1]].status = NormalStatus(out'.arg[2]))]_vars

(* the fields of a stored report other than its status *)
Frozen(rec) == [rec EXCEPT !.status = ""]

(* every report of table T is in table T2 with the same fields, the       *)
(* status set aside                                                       *)
KeepsReports(T, T2) ==
    \A id \in DOMAIN T : id \in DOMAIN T2 /\ Frozen(T2[id]) = Frozen(T[id])

(* table T2 is table T but for the status of report id *)
OnlyStatusOf(T, T2, id) ==
    /\ DOMAIN T2 = DOMAIN T
    /\ \A k \in DOMAIN T : IF k = id THEN Frozen(T2[k]) = Frozen(T[k]) ELSE T2[k] = T[k]

(* a status update changes nothing but the status of its target report,   *)
(* a lookup changes nothing                                               *)
UpdateFrame ==
    /\ out'.op = "update_report_status_in_db" =>
           /\ OnlyStatusOf(primary, primary', out'.arg[1])
           /\ OnlyStatusOf(dbREPORTS, dbREPORTS', out'.arg[1])
    /\ out'.op = "get_report" => (primary' = primary /\ dbREPORTS' = dbREPORTS)

(* C8: a stored report keeps its report_id, report_type, location,        *)
(* details, urgency, photo reference and owner in every step; a status    *)
(* update changes nothing but the status of its target report; a lookup   *)
(* changes nothing.                                                       *)
C8_FieldsNeverChange ==
    [][/\ KeepsReports(primary, primary')
       /\ KeepsReports(dbREPORTS, dbREPORTS')
       /\ UpdateFrame]_vars

(* the part of C8 about the steps of status updates and lookups alone *)
UpdatesAndLookupsKeepFields ==
    [][out'.op \in {"update_report_status_in_db", "get_report"} =>
          /\ KeepsReports(primary, primary')
          /\ KeepsReports(dbREPORTS, dbREPORTS')
          /\ UpdateFrame]_vars

----------------------------------------------------------------------------
(* Properties of the conversation engine, checked on Spec *)

(* C1: a report whose id finalize_report showed to its user ('submitted   *)
(* successfully' or 'stored temporarily') and that is held in the primary *)
(* store or in an in-memory table is found by every later lookup of that  *)
(* id whose read of the primary store is answered: get_report returns a   *)
(* record with the fields of the report, and the SearchById step replies  *)
(* with the report details.                                               *)
C1_ShownReportIsFound ==
    \A s \in shown, text \in IdTexts :
        (ToUpper(text) = s.id /\ Copies(s.id) # {}) =>
            LET g == GetReport(primary, dbREPORTS, dbReady, text, "ok")
                r == SearchReport(primary, dbREPORTS, hREPORTS, dbReady, text, "ok")
            IN  /\ g.found
                /\ g.rec.report_type = s.rec.report_type
                /\ g.rec.all_data = s.rec.all_data
                /\ g.rec.user_id = s.rec.user_id
                /\ r.reply = "REPORT DETAILS"

Marker == "in_conversation"

(* the scratch data d holds no key, the marker set aside *)
NoScratch(d) == [d EXCEPT !.keys = {}, !.in_conversation = FALSE] = EmptyUD

(* C9: in every conversation state other than Idle, the cancel command    *)
(* removes every key of the scratch data except in_conversation, which    *)
(* stays as it was, and moves the session to the main-menu state.         *)
C9_CancelClearsScratch ==
    [][\A u \in Users :
          (out'.op = "cancel" /\ out'.uid = u /\ state[u] # "END") =>
              /\ state'[u] = "CHOOSING_REPORT_TYPE"
              /\ user_data'[u].keys = user_data[u].keys \cap {Marker}
              /\ user_data'[u].in_conversation = user_data[u].in_conversation
              /\ NoScratch(user_data'[u])]_vars

(* a cancel by the user who began an intake and has not finalized it: the *)
(* session is at the main menu with the marker as its only key            *)
C9_Witness ==
    /\ out.op = "cancel" /\ out.uid \in Reporters
    /\ intakes > 0 /\ shown = {}
    /\ state[out.uid] = "CHOOSING_REPORT_TYPE"
    /\ user_data[out.uid].keys = {Marker}

----------------------------------------------------------------------------
(* Properties of the contact relay, checked on SpecContact *)

(* the step in which send_message_to_submitter forwarded (or failed to    *)
(* forward) the message of user u                                         *)
Forwarded(u) ==
    /\ state[u] \in {"SEND_MESSAGE", "DESCRIPTION"}
    /\ out'.op = "send_message_to_submitter" /\ out'.uid = u
    /\ out'.ret \in DeliveryOutcomes

----------------------------------------------------------------------------
(* Properties of the intake, checked on Spec *)

(* the step in which finalize_report (run by photo or handle_skip_photo)   *)
(* returned the session of user u to the main menu                         *)
Finalized(u) ==
    /\ state[u] = "PHOTO"
    /\ out'.op = "finalize_report" /\ out'.uid = u
    /\ state'[u] = "CHOOSING_REPORT_TYPE"

(* C11: whenever finalize_report returns the session to the main menu,     *)
(* after save_report returned a record ('submitted successfully') or after *)
(* the handler stored the report in its own table ('stored temporarily'),  *)
(* the scratch data holds no report field any more: in_conversation is its *)
(* only key.                                                               *)
C11_FinalizeClearsReportFields ==
    [][\A u \in Users :
          Finalized(u) =>
              (user_data'[u].keys = {Marker} /\ NoScratch(user_data'[u]))]_vars

(* the part of C11 that holds: after save_report returned a record the     *)
(* marker is the only key left                                             *)
SubmittedClearsReportFields ==
    [][\A u \in Users :
          (Finalized(u) /\ out'.ret = "submitted successfully") =>
              (user_data'[u].keys = {Marker} /\ NoScratch(user_data'[u]))]_vars

(* the next states the resolutions of an ExactLocation step lead to from   *)
(* scratch data d: a shared device location or typed coordinates on one    *)
(* side, declined coordinates on the other (for Offer Help the handler of  *)
(* declined coordinates raises and the session stays where it is)          *)
ResolutionTargets(d) ==
    LET report_type == GetKey(d, "report_type", "")
    IN  {AfterCoordinates(report_type),
         IF report_type = "Offer Help" THEN "COLLECT_EXACT_LOCATION"
         ELSE AfterNoCoordinates(report_type)}

(* C12: at an ExactLocation step the three resolutions (a shared device    *)
(* location, typed coordinates, declined coordinates) lead to the same     *)
(* next state, for every report type and at both places of the flow where  *)
(* the step occurs (after the region, after the last-seen location).       *)
C12_ResolutionsConverge ==
    \A u \in Users :
        (state[u] = "COLLECT_EXACT_LOCATION" /\ Has(user_data[u], "form_data")) =>
            Cardinality(ResolutionTargets(user_data[u])) = 1

(* the states of the guided Missing Person intake in the order of the      *)
(* transition table, from the first question to UrgencySelect              *)
MissingPersonOrder ==
    <<"COLLECT_NAME", "COLLECT_AGE", "COLLECT_GENDER", "COLLECT_DESCRIPTION",
      "COLLECT_LAST_SEEN_LOCATION", "COLLECT_EXACT_LOCATION", "COLLECT_LAST_SEEN_TIME",
      "COLLECT_MEDICAL_INFO", "COLLECT_CONTACT_INFO", "SELECT_URGENCY">>

(* the state that follows st in the order, for a question st *)
Following(st) ==
    LET i == CHOOSE k \in 1..(Len(MissingPersonOrder) - 1) : MissingPersonOrder[k] = st
    IN  MissingPersonOrder[i + 1]

Questions == {MissingPersonOrder[k] : k \in 1..(Len(MissingPersonOrder) - 1)}
                 \ {"COLLECT_EXACT_LOCATION"}

(* a step of the guided Missing Person intake of user u that leaves the    *)
(* state it was in (not a re-prompt, not a fallback command)               *)
GuidedStep(u) ==
    /\ GetKey(user_data[u], "report_type", "") = "Missing Person (Earthquake)"
    /\ out'.uid = u /\ out'.op \notin {"cancel", "restore_main_menu"}
    /\ state'[u] # state[u]

(* the state an ExactLocation step has to lead to: the first question when *)
(* the step follows the region, the question after the last-seen location  *)
(* when it follows that                                                    *)
AfterExactLocation(d) ==
    IF "last_seen_location" \in d.form THEN "COLLECT_LAST_SEEN_TIME" ELSE "COLLECT_NAME"

(* C13: in the guided Missing Person intake, whatever is chosen at the     *)
(* ExactLocation steps, every step leads to the next state of the order    *)
(* CollectName, CollectAge, CollectGender, CollectDescription,             *)
(* CollectLastSeenLocation, ExactLocation, CollectLastSeenTime,            *)
(* CollectMedicalInfo, CollectContactInfo, UrgencySelect: the session      *)
(* passes through each of them once, in that order.                        *)
C13_MissingPersonOrder ==
    [][\A u \in Users :
          GuidedStep(u) =>
              /\ state[u] \in Questions => state'[u] = Following(state[u])
              /\ state[u] = "COLLECT_EXACT_LOCATION" =>
                     state'[u] \in {"COLLECT_CUSTOM_COORDINATES",
                                    AfterExactLocation(user_data[u])}
              /\ state[u] = "COLLECT_CUSTOM_COORDINATES" =>
                     state'[u] = AfterExactLocation(user_data[u])]_vars

(* the part of C13 that holds: every question other than ExactLocation is  *)
(* followed by the next state of the order                                 *)
QuestionsInOrder ==
    [][\A u \in Users :
          (GuidedStep(u) /\ state[u] \in Questions) =>
              state'[u] = Following(state[u])]_vars

(* the tables in which a report is persisted *)
Persisted == {primary, dbREPORTS, hREPORTS}

(* the details block was compiled by collect_contact_info for a report     *)
(* type of the guided intake                                               *)
Guided(data) == data.kind \in ReportTypes

(* C14: every report persisted through the guided intake has had every     *)
(* field of its report type supplied by the user in the corresponding      *)
(* collection state: no field of its type is missing from its details.     *)
C14_GuidedReportsComplete ==
    \A T \in Persisted : \A id \in DOMAIN T :
        Guided(T[id].all_data) =>
            TypeFields(T[id].all_data.kind) \subseteq T[id].all_data.fields

(* the first question of the guided intake of a report type *)
FirstField(report_type) ==
    IF report_type = "Request Rescue" THEN "people_count" ELSE "name"

(* the part of C14 that holds: a persisted guided report whose first       *)
(* question was answered has every field of its type                       *)
StartedAtFirstQuestionComplete ==
    \A T \in Persisted : \A id \in DOMAIN T :
        (Guided(T[id].all_data) /\ FirstField(T[id].all_data.kind) \in T[id].all_data.fields) =>
            TypeFields(T[id].all_data.kind) \subseteq T[id].all_data.fields

(* user u is in a guided intake and has shared a device location or typed  *)
(* a valid pair at an ExactLocation step                                   *)
CoordinatesGiven(u) ==
    /\ state[u] \in IntakeStates
    /\ Has(user_data[u], "form_data")
    /\ TypeFields(GetKey(user_data[u], "report_type", "")) # {}
    /\ user_data[u].coords = Coordinates

(* a step of user u's intake: any handler but the fallback commands *)
IntakeStep(u) == out'.uid = u /\ out'.op \notin {"cancel", "restore_main_menu"}

(* C15: when the user shared a device location or typed a valid 'lat,lon'  *)
(* pair at an ExactLocation step of a guided intake, the pair stays in the *)
(* form through the rest of the intake, the details compiled from the form *)
(* carry it, and so does the report that is finalized.                     *)
C15_CoordinatesCarried ==
    [][\A u \in Users :
          (CoordinatesGiven(u) /\ IntakeStep(u)) =>
              IF out'.op = "finalize_report"
              THEN \A s \in shown' \ shown : s.rec.all_data.coords = Coordinates
              ELSE /\ user_data'[u].coords = Coordinates
                   /\ Has(user_data'[u], "all_data") =>
                          user_data'[u].all_data.coords = Coordinates]_vars

(* the part of C15 that holds: every step that is not the skip of an       *)
(* ExactLocation step, nor wrongly typed coordinates, keeps the pair       *)
CoordinatesKeptElsewhere ==
    [][\A u \in Users :
          (CoordinatesGiven(u) /\ IntakeStep(u)
             /\ out'.op \notin {"collect_exact_location", "collect_custom_coordinates",
                                "finalize_report"}) =>
              /\ user_data'[u].coords = Coordinates
              /\ Has(user_data'[u], "all_data") =>
                     user_data'[u].all_data.coords = Coordinates]_vars

(* a complete guided report is persisted *)
CompleteGuidedReport ==
    \E T \in Persisted : \E id \in DOMAIN T :
        /\ Guided(T[id].all_data)
        /\ TypeFields(T[id].all_data.kind) \subseteq T[id].all_data.fields

(* what the code does instead of C15: the only way on from the second      *)
(* ExactLocation step writes "Not provided", so no persisted guided report *)
(* carries a coordinate pair                                               *)
GuidedReportsCarryNoCoordinates ==
    \A T \in Persisted : \A id \in DOMAIN T :
        Guided(T[id].all_data) => T[id].all_data.coords = ""

----------------------------------------------------------------------------
(* Report identifiers.  SpecIds is the intake of src/app.py run more than  *)
(* once by the same reporter: the free-form intake and the shortest guided *)
(* one, with two values the six digits taken from uuid4 may have.          *)

MaxIdIntakes == 2
IdSuffixes == {"A1B2C3", "D4E5F6"}
IdMenuTexts == {"Report Missing", "hello"}

NextIds ==
    \E u \in Users :
        \/ start(u)
        \/ \E text \in IdMenuTexts : HandleMenuSelection(u, text, MaxIdIntakes)
        \/ \E location \in Locations : choose_location(u, location)
        \/ collect_exact_location(u, "no coordinates")
        \/ \E text \in FieldTexts : collect_last_seen_time(u, text)
        \/ \E text \in FieldTexts : collect_medical_info(u, text)
        \/ \E sfx \in IdSuffixes : collect_contact_info(u, sfx)
        \/ \E text \in FreeTexts, sfx \in IdSuffixes : collect_data(u, text, sfx)
        \/ \E text \in UrgencyTexts : select_urgency(u, text)
        \/ \E o \in PhotoOutcomes, s \in SaveOutcomes, channel \in ChannelOutcomes :
              photo(u, o, s[1], s[2], channel)
        \/ \E text \in SkipTexts, s \in SaveOutcomes, channel \in ChannelOutcomes :
              handle_skip_photo(u, text, s[1], s[2], channel)
        \/ cancel(u)
        \/ restore_main_menu(u)

SpecIds == Init /\ [][NextIds]_vars

(* the ids of the reports finalized so far *)
FinalizedIds == {s.id : s \in shown}

(* C16: no two finalized reports have the same report_id: the id of the    *)
(* report a finalization shows to its user is the id of no report that was *)
(* finalized before, over any number of intakes.                           *)
C16_IdsNeverReused ==
    [][\A u \in Users :
          Finalized(u) => GetKey(user_data[u], "report_id", "") \notin FinalizedIds]_vars

----------------------------------------------------------------------------
(* More properties of the persistence facade, checked on SpecStore *)

(* the step is a save_report call for an id under which a report of       *)
(* another user is stored                                                 *)
SavesTakenId ==
    /\ out'.op = "save_report"
    /\ Stranger(out'.arg, out'.uid)

(* C17: when save_report is given a report_id that already belongs to a   *)
(* stored report, the stored report is replaced neither in the primary    *)
(* store nor in the fallback table, and when the call returns a record    *)
(* (the caller is told the new report is recorded under the id), every    *)
(* get_report of the id resolves to the new report, not to another one.   *)
C17_TakenIdKeepsLookupsCorrect ==
    [][SavesTakenId =>
          LET id == out'.arg
          IN  /\ id \in DOMAIN primary => primary'[id] = primary[id]
              /\ id \in DOMAIN dbREPORTS => dbREPORTS'[id] = dbREPORTS[id]
              /\ out'.ret = "record" =>
                     \A rest \in RestReadOutcomes :
                         LET g == GetReport(primary', dbREPORTS', dbReady', id, rest)
                         IN  g.found /\ g.rec.user_id = out'.uid]_vars

(* the part of C17 that holds: the primary store enforces uniqueness, a   *)
(* row stored there is never replaced by a save                           *)
PrimaryRowNeverReplaced ==
    [][out'.op = "save_report" =>
          \A id \in DOMAIN primary : id \in DOMAIN primary' /\ primary'[id] = primary[id]]_vars

----------------------------------------------------------------------------
(* Properties of the menus, checked on Spec *)

(* the report types of the data model: the four types of the intake and   *)
(* the legacy item types                                                  *)
KnownTypes == ReportTypes \cup {"Lost Item", "Found Item"}

(* C18: the report_type of every session in intake and of every persisted *)
(* report is one of Missing Person, Found Person, Request Rescue, Offer    *)
(* Help or a legacy item type: a text typed at the main menu that is no    *)
(* menu option never becomes a report type and never starts an intake.     *)
C18_ReportTypeEnumerated ==
    /\ \A u \in Users :
           state[u] \in IntakeStates => GetKey(user_data[u], "report_type", "") \in KnownTypes
    /\ \A T \in Persisted : \A id \in DOMAIN T : T[id].report_type \in KnownTypes

(* the part of C18 that holds: the four type buttons of the main menu give *)
(* the four report types                                                   *)
ButtonsGiveKnownTypes ==
    [][\A u \in Users :
          (out'.op = "handle_menu_selection" /\ out'.uid = u /\ out'.ret \in TypeButtons) =>
              (state'[u] = "CHOOSING_LOCATION" /\ user_data'[u].report_type \in ReportTypes)]_vars

(* the step in which choose_status answered user u in ChooseNewStatus *)
ChoseStatus(u) ==
    /\ state[u] = "CHOOSE_STATUS"
    /\ out'.op = "choose_status" /\ out'.uid = u

(* the statuses written to table T in a step that leaves it as T2 *)
Written(T, T2) ==
    {T2[id].status : id \in {k \in DOMAIN T2 : k \notin DOMAIN T \/ T2[k].status # T[k].status}}

(* C19: in ChooseNewStatus an input that is none of the five status        *)
(* options writes nothing (the menu is shown again), so every status a     *)
(* choose_status step writes to a stored report is one of Still Missing,   *)
(* Found, Hospitalized, Deceased, Other.                                   *)
C19_StatusMenuConstrained ==
    [][\A u \in Users :
          ChoseStatus(u) =>
              Written(primary, primary') \cup Written(dbREPORTS, dbREPORTS') \subseteq Statuses]_vars

(* the step in which select_urgency answered user u in UrgencySelect *)
SelectedUrgency(u) ==
    /\ state[u] = "SELECT_URGENCY"
    /\ out'.op = "select_urgency" /\ out'.uid = u

(* the texts of the offered urgency options *)
OfferedUrgencies == UrgencyLabels \cup Urgencies

----------------------------------------------------------------------------
(* Properties of the contact flow of the main menu, checked on Spec *)

(* the ids of the reports that exist: a row of the primary store or an   *)
(* entry of one of the in-memory tables                                  *)
ExistingIds == DOMAIN primary \cup DOMAIN dbREPORTS \cup DOMAIN hREPORTS

(* the step in which user u, having chosen the contact option of the main *)
(* menu, sent the id of an existing report                                *)
SentExistingId(u) ==
    /\ state[u] = "SEND_MESSAGE_TO_REPORTER"
    /\ out'.op = "choose_report_to_contact" /\ out'.uid = u
    /\ out'.arg \in ExistingIds

(* C21: after the contact option of the main menu, sending the id of an   *)
(* existing report brings the session to ComposeMessage (DESCRIPTION)     *)
(* with that report and its owner noted, from where the next text is      *)
(* forwarded to the owner.                                                *)
C21_ContactByIdReachesCompose ==
    [][\A u \in Users :
          SentExistingId(u) =>
              /\ state'[u] = "DESCRIPTION"
              /\ GetKey(user_data'[u], "contact_report_id", "") = out'.arg]_vars

(* the contact option of the main menu leads to SEND_MESSAGE_TO_REPORTER, *)
(* and no text sent there leaves that state                               *)
ContactOptionNeverComposes ==
    [][\A u \in Users :
          /\ (state[u] = "CHOOSING_REPORT_TYPE" /\ out'.op = "handle_menu_selection"
              /\ out'.uid = u /\ out'.ret = "Contact") =>
                 state'[u] = "SEND_MESSAGE_TO_REPORTER"
          /\ (state[u] = "SEND_MESSAGE_TO_REPORTER" /\ out'.op = "choose_report_to_contact"
              /\ out'.uid = u) =>
                 (state'[u] = "SEND_MESSAGE_TO_REPORTER" /\ user_data'[u] = user_data[u])]_vars

(* the step in which choose_report_to_contact answered a text of user u   *)
(* in PickFromResults                                                     *)
PickedFromResults(u) ==
    /\ state[u] = "SEND_MESSAGE_TO_REPORTER"
    /\ out'.op = "choose_report_to_contact" /\ out'.uid = u

(* C22: in PickFromResults an input that is not a number or is out of     *)
(* range leaves the session in the same state with the scratch data       *)
(* unchanged; when the scratch data holds no result list, the input ends  *)
(* the flow (session expired) instead of asking again.                    *)
C22_PickFromResultsRejects ==
    [][\A u \in Users :
          PickedFromResults(u) =>
              IF Has(user_data[u], "matching_reports")
              THEN out'.ret \in {"Please enter a number", "Invalid selection"} =>
                       (state'[u] = state[u] /\ user_data'[u] = user_data[u])
              ELSE state'[u] = "END"]_vars

(* what the handler does in every session: the scratch data never holds   *)
(* a result list, and every input is asked again                          *)
PickAlwaysAsksAgain ==
    [][\A u \in Users :
          PickedFromResults(u) =>
              /\ ~Has(user_data[u], "matching_reports")
              /\ out'.ret \in {"Please enter a number", "Invalid selection"}
              /\ state'[u] = "SEND_MESSAGE_TO_REPORTER"
              /\ user_data'[u] = user_data[u]]_vars

----------------------------------------------------------------------------
(* Properties of the publication relay, checked on Spec *)

(* the step in which finalize_report ran for user u and the publication  *)
(* to the broadcast channel failed: the send raised, or no channel is    *)
(* configured                                                            *)
PublishFailed(u) ==
    /\ state[u] = "PHOTO"
    /\ out'.op = "finalize_report" /\ out'.uid = u
    /\ out'.path \in {"raises", "no channel"}

(* the report of user u under id is held by table T *)
HoldsReportOf(T, id, u) == id \in DOMAIN T /\ T[id].user_id = u

----------------------------------------------------------------------------
(* The guided intake from the first menu to the stored report, checked on *)
(* Spec                                                                   *)

(* YGN- followed by the six characters of the uuid, upper case *)
YangonIds == {"YGN-" \o sfx : sfx \in Suffixes}

(* the step in which finalize_report ran for a session of user u that     *)
(* chose Missing Person and Yangon, went through the guided questions,    *)
(* chose the urgency High and skipped the photo, while the primary store  *)
(* works: the REST client is configured and the row was inserted          *)
HappyPathFinalized(u) ==
    LET d == user_data[u]
    IN  /\ state[u] = "PHOTO"
        /\ out'.op = "finalize_report" /\ out'.uid = u
        /\ GetKey(d, "report_type", "") = "Missing Person (Earthquake)"
        /\ GetKey(d, "location", "") = "Yangon"
        /\ Has(d, "form_data")
        /\ GetKey(d, "urgency", "") = "High (Trapped/Missing)"
        /\ \E s \in shown' : s.id = d.report_id /\ s.rec.user_id = u /\ s.rec.photo_id = None
        /\ dbReady
        /\ d.report_id \notin DOMAIN primary /\ d.report_id \in DOMAIN primary'

----------------------------------------------------------------------------
(* Properties of the error handling of the conversation, checked on Spec *)

(* the step in which a handler of the conversation raised while it        *)
(* answered user u, and error_handler replied with the apology            *)
HandlerRaised(u) ==
    /\ state[u] \in ConvStates
    /\ out'.uid = u /\ out'.ret = "error"

(* C25: when a state handler raises an unexpected exception, the user     *)
(* gets the apology and the flow of the session is terminated to Idle     *)
(* (END); the session does not stay in the state whose handler failed.    *)
C25_RaisingHandlerEndsFlow ==
    [][\A u \in Users : HandlerRaised(u) => state'[u] = "END"]_vars

(* what happens instead: the session stays in the state whose handler     *)
(* raised, with whatever the handler stored before it raised              *)
RaisingHandlerKeepsState ==
    [][\A u \in Users : HandlerRaised(u) => state'[u] = state[u]]_vars

(* a handler has raised in a session that is still in its conversation *)
RaisedInConversation ==
    out.ret = "error" /\ out.op = "collect_exact_location"
        /\ state[out.uid] = "COLLECT_EXACT_LOCATION"

(* C26: no session is ever stuck.  Whatever inputs, handler errors and    *)
(* store failures came before, the session is in a state it can leave:    *)
(* in every conversation state but Idle the cancel command leads to the   *)
(* main menu, and in Idle the start command does.                         *)
C26_NeverStuck ==
    \A u \in Users :
        /\ state[u] \in ConvStates \cup {"END"}
        /\ state[u] # "END" => ENABLED (cancel(u) /\ state'[u] = "CHOOSING_REPORT_TYPE")
        /\ state[u] = "END" => ENABLED (start(u) /\ state'[u] = "CHOOSING_REPORT_TYPE")

(* a session in the one state no input but a fallback command leaves,     *)
(* its last input rejected, after a save that failed: cancel leads to the *)
(* main menu                                                              *)
C26_Witness ==
    \E u \in Users :
        /\ state[u] = "SEND_MESSAGE_TO_REPORTER"
        /\ out.op = "choose_report_to_contact" /\ out.uid = u
        /\ DOMAIN hREPORTS # {}
        /\ ENABLED (cancel(u) /\ state'[u] = "CHOOSING_REPORT_TYPE")

----------------------------------------------------------------------------
(* The direct connection.  get_postgres_connection (db_utils 176-329) is  *)
(* called inside the facade calls.  SpecConnection follows the dispatcher *)
(* and one handler at a time through its connection attempts.  The       *)
(* dispatcher runs the handlers one after the other (the Application of   *)
(* app.py 609 is built without concurrent updates), and a facade call is  *)
(* an ordinary call that connects and sleeps (time.sleep) without         *)
(* yielding to the event loop: no other handler runs before it returns.   *)

max_retries == 3
retry_delay == 2

(* the facade calls of the handlers: finalize_report, the lookups by id, *)
(* search_missing_person and choose_status                               *)
FacadeCalls ==
    {"save_report", "get_report", "search_missing_people", "update_report_status_in_db"}

(* Outcomes of the REST request of a facade call: rows are returned, no   *)
(* row is returned, the request raises                                    *)
RestOutcomes == {"ok", "norows", "raise"}

(* the calls of get_postgres_connection one facade call makes, by their   *)
(* direct_connect argument: save_report calls ensure_schema_exists first  *)
(* (399, 81-89) and connects again when the REST insert raised (436);     *)
(* update_report_status_in_db connects when the REST requests raised      *)
(* (824); search_missing_people connects when the REST search found       *)
(* nothing (713); get_report never connects (746-773)                     *)
ConnectionCalls(op, ready, rest) ==
    CASE op = "save_report" ->
            (IF ready THEN <<TRUE>> ELSE << >>)
                \o (IF ready /\ rest # "raise" THEN << >> ELSE <<TRUE>>)
      [] op = "update_report_status_in_db" ->
            IF ready /\ rest # "raise" THEN << >> ELSE <<TRUE>>
      [] op = "search_missing_people" ->
            IF ready /\ rest = "ok" THEN << >> ELSE <<FALSE>>
      [] OTHER -> << >>

EngineUnchanged ==
    UNCHANGED <<dbReady, primary, dbREPORTS, hREPORTS, state, user_data, out, shown, intakes,
                relay>>

(* a user sends an update; it waits until the dispatcher takes it *)
SendUpdate(v) ==
    /\ v \notin pending
    /\ pending' = pending \cup {v}
    /\ UNCHANGED <<pg_conn, environ, call>>
    /\ EngineUnchanged

(* the dispatcher, running no handler, takes the update of user v and    *)
(* runs its handler, which makes the facade call op                      *)
ProcessUpdate(v, op, rest) ==
    /\ call = NoCall
    /\ v \in pending
    /\ pending' = pending \ {v}
    /\ call' = [NoCall EXCEPT !.uid = v, !.op = op,
                              !.todo = ConnectionCalls(op, dbReady, rest)]
    /\ UNCHANGED <<pg_conn, environ>>
    /\ EngineUnchanged

(* get_postgres_connection returns, a connection or None *)
Returned(c, ret) ==
    [c EXCEPT !.todo = Tail(@), !.loop = "", !.retry_count = 0, !.current_delay = 0, !.ret = ret]

(* retry_count = 0, current_delay = retry_delay: lines 219-220, 285-286 *)
EnterLoop(c, loop) == [c EXCEPT !.loop = loop, !.retry_count = 0, !.current_delay = retry_delay]

(* lines 261-283: without a host (POSTGRES_HOST, or the host taken from   *)
(* the REST url) or without a password None is returned, else the second  *)
(* retry loop is entered                                                  *)
HostSection(c) ==
    IF ("POSTGRES_HOST" \in environ \/ dbReady) /\ "POSTGRES_PASSWORD" \in environ
    THEN EnterLoop(c, "host")
    ELSE Returned(c, "None")

(* get_postgres_connection up to its first retry loop, lines 189-220: a   *)
(* cached connection that answers is returned                             *)
get_postgres_connection(alive) ==
    /\ call.uid # 0 /\ call.loop = "" /\ call.todo # << >>
    /\ IF pg_conn = "open" /\ alive
       THEN /\ call' = Returned([call EXCEPT !.last = "live"], "pg_conn")
            /\ UNCHANGED pg_conn
       ELSE /\ pg_conn' = None
            /\ call' = LET c == [call EXCEPT !.last = "", !.ret = ""]
                       IN  IF Head(call.todo) /\ "DIRECT_PG_HOST" \in environ
                           THEN EnterLoop(c, "direct")
                           ELSE HostSection(c)
    /\ UNCHANGED <<environ, pending>>
    /\ EngineUnchanged

(* Outcomes of psycopg2.connect: connected; OperationalError for a host   *)
(* name that does not resolve, or for a timeout; any other error          *)
ConnectOutcomes == {"ok", "dns", "timeout", "refused"}

(* a retry loop that treats every failed attempt as transient *)
connect_retrying_all(o) ==
    /\ call.loop \in {"direct", "host"}
    /\ LET retry_count == call.retry_count + 1
           c == [call EXCEPT !.last = o]
           leave == IF call.loop = "direct" THEN HostSection(c) ELSE Returned(c, "None")
       IN  IF o = "ok"
           THEN /\ pg_conn' = "open"
                /\ call' = Returned(c, "pg_conn")
           ELSE /\ UNCHANGED pg_conn
                /\ call' = IF retry_count <= max_retries
                           THEN [c EXCEPT !.retry_count = retry_count,
                                          !.slept = @ + call.current_delay,
                                          !.current_delay = 2 * @]
                           ELSE leave
    /\ UNCHANGED <<environ, pending>>
    /\ EngineUnchanged

(* one pass of a retry loop, lines 222-259 and 288-327: a host name that  *)
(* does not resolve and a timeout are retried after time.sleep of         *)
(* current_delay, which doubles; after max_retries retries, or on another *)
(* error, the loop is left; leaving the first loop leads to the second    *)
connect(o) ==
    /\ call.loop \in {"direct", "host"}
    /\ LET retry_count == call.retry_count + 1
           c == [call EXCEPT !.last = o]
           leave == IF call.loop = "direct" THEN HostSection(c) ELSE Returned(c, "None")
       IN  CASE o = "ok" ->
                  /\ pg_conn' = "open"
                  /\ call' = Returned(c, "pg_conn")
             [] o \in {"dns", "timeout"} ->
                  /\ UNCHANGED pg_conn
                  /\ call' = IF retry_count <= max_retries
                             THEN [c EXCEPT !.retry_count = retry_count,
                                            !.slept = @ + call.current_delay,
                                            !.current_delay = 2 * @]
                             ELSE leave
             [] OTHER ->
                  /\ UNCHANGED pg_conn
                  /\ call' = leave
    /\ UNCHANGED <<environ, pending>>
    /\ EngineUnchanged

(* the facade call has made its connection calls: the handler replies and *)
(* returns to the dispatcher                                              *)
HandlerReturns ==
    /\ call.uid # 0 /\ call.loop = "" /\ call.todo = << >>
    /\ call' = NoCall
    /\ UNCHANGED <<pg_conn, environ, pending>>
    /\ EngineUnchanged

InitConnection == \E h \in SUBSET EnvironVariables : InitWith(h)

NextConnection ==
    \/ \E v \in Users : SendUpdate(v)
    \/ \E v \in Users, op \in FacadeCalls, rest \in RestOutcomes : ProcessUpdate(v, op, rest)
    \/ \E alive \in BOOLEAN : get_postgres_connection(alive)
    \/ \E o \in ConnectOutcomes : connect(o)
    \/ HandlerReturns

SpecConnection == InitConnection /\ [][NextConnection]_vars

(* Properties of the connection handling, checked on SpecConnection *)

(* C27: no user-facing persistence call (save_report, get_report, a      *)
(* search, update_report_status_in_db) runs a retry-with-backoff loop:    *)
(* while a handler answers a user request no connection attempt is        *)
(* retried and no backoff sleep is taken.                                 *)
C27_NoRetryInsideRequest ==
    call.uid # 0 => (call.retry_count = 0 /\ call.slept = 0)

(* what holds instead: get_report alone never connects; a request makes   *)
(* at most two connection calls, and each sleeps at most through its two  *)
(* exhausted retry loops (2 + 4 + 8 seconds each)                         *)
BackoffBounded ==
    /\ call.op = "get_report" => (call.loop = "" /\ call.slept = 0)
    /\ call.slept <= 2 * 2 * (retry_delay + 2 * retry_delay + 4 * retry_delay)

(* a save_report whose REST insert succeeded has slept through the two    *)
(* retry loops of ensure_schema_exists                                    *)
SleptInsideRequest ==
    call.op = "save_report" /\ dbReady /\ call.todo = << >> /\ call.slept = 28

(* a handler is blocked in a connection attempt or a backoff sleep *)
Blocked == call.uid # 0 /\ call.loop # ""

(* C28: while the handler of one session is blocked in an external call   *)
(* (a slow or retrying database connection), the updates of the other     *)
(* sessions are still processed: an update of another user that waits     *)
(* can be taken by the dispatcher.                                        *)
C28_OtherSessionsProceed ==
    \A v \in Users :
        (Blocked /\ v # call.uid /\ v \in pending) =>
            ENABLED (\E op \in FacadeCalls, rest \in RestOutcomes : ProcessUpdate(v, op, rest))

(* what holds instead: from the moment a handler runs until it returns no *)
(* other update is taken; the updates sent meanwhile wait                 *)
OneHandlerAtATime ==
    [][call.uid # 0 => (call'.uid \in {0, call.uid} /\ pending \subseteq pending')]_vars

(* the update of another user waits while a handler sleeps between two    *)
(* connection attempts                                                    *)
UpdateWaitsForSleeper ==
    Blocked /\ call.slept > 0 /\ pending \ {call.uid} # {}

----------------------------------------------------------------------------
(* Properties of the search by id, checked on Spec *)

(* the step in which search_report answered the id text of user u *)
SearchedById(u) ==
    /\ state[u] = "SEARCHING_REPORT"
    /\ out'.op = "search_report" /\ out'.uid = u

(* C29: both outcomes of the SearchById step, the report shown and no     *)
(* report found, leave the session in the same state, the main menu, in   *)
(* which the next menu selection is accepted without a new start command. *)
C29_SearchEndsInMenu ==
    [][\A u \in Users :
          SearchedById(u) =>
              /\ out'.ret \in {"REPORT DETAILS", "No report found"}
              /\ state'[u] = "CHOOSING_REPORT_TYPE"]_vars

(* what the handler does: a report shown leads to the main menu, a report *)
(* not found ends the conversation                                        *)
SearchMissEndsConversation ==
    [][\A u \in Users :
          SearchedById(u) =>
              /\ out'.ret = "REPORT DETAILS" => state'[u] = "CHOOSING_REPORT_TYPE"
              /\ out'.ret = "No report found" => state'[u] = "END"]_vars

(* a session whose conversation has ended accepts no menu selection: only *)
(* the start command is answered                                          *)
EndedAcceptsNoSelection ==
    \A u \in Users :
        state[u] = "END" =>
            /\ ~ ENABLED (\E text \in MenuTexts : handle_menu_selection(u, text))
            /\ ENABLED start(u)

----------------------------------------------------------------------------
(* validate_report_data called directly, on texts and report types drawn  *)
(* from bounded sets.                                                     *)

(* the texts there are, with lengths around the thresholds 25, 75 and    *)
(* 100 of the function, word counts around 4 and newline counts around   *)
(* 2: words and newlines take room, a digit or a keyword takes a word,   *)
(* and a text that is a greeting of the list once stripped has at most   *)
(* three words                                                           *)
Texts ==
    {t \in [len : {0, 10, 24, 25, 60, 76, 100, 101, 150},
            words : {0, 1, 3, 4, 9}, greeting : BOOLEAN,
            lines : {0, 1, 2, 3}, digit : BOOLEAN, keyword : BOOLEAN] :
        /\ 2 * t.words <= t.len + 1
        /\ t.lines <= t.len
        /\ (t.digit \/ t.keyword \/ t.greeting) => t.words >= 1
        /\ t.greeting => (t.words <= 3 /\ ~t.digit)}

(* the four report types, no type, and a type of none of the four kinds *)
TypeArgs == ReportTypes \cup {"", "Lost Pet"}

(* the call validate_report_data(text, report_type) and what it returned *)
validate(text, report_type) ==
    /\ out.op = "input" /\ out.arg = <<text, report_type>>
    /\ out' = Out("validate_report_data", 0, <<text, report_type>>,
                  Bool(validate_report_data(text, report_type)), "")
    /\ UNCHANGED <<primary, dbREPORTS, intakes>>
    /\ SessionsUnchanged

InitValidate ==
    \E text \in Texts, report_type \in TypeArgs :
        InitOf(Out("input", 0, <<text, report_type>>, "", ""), EnvironVariables)

NextValidate == \E text \in Texts, report_type \in TypeArgs : validate(text, report_type)

SpecValidate == InitValidate /\ [][NextValidate]_vars

(* C30: validate_report_data(text, type) returns false for every text     *)
(* shorter than 25 characters, and returns true for every text (of 25     *)
(* characters or more: the shorter ones are the first part) that has at   *)
(* least 2 newlines or more than 100 characters, for every report type,   *)
(* the empty and the unknown type included.                               *)
C30_ValidationThresholds ==
    out.op = "validate_report_data" =>
        LET text == out.arg[1]
        IN  /\ text.len < 25 => out.ret = "False"
            /\ (text.len >= 25 /\ (text.lines >= 2 \/ text.len > 100)) => out.ret = "True"

(* what the function does: without a report type every text is accepted;  *)
(* with one, a text shorter than 25 characters or of fewer than four      *)
(* words is rejected whatever its length and its newlines, and a text of  *)
(* four words or more with 2 newlines or more than 100 characters is      *)
(* accepted                                                               *)
ValidationAsCoded ==
    out.op = "validate_report_data" =>
        LET text == out.arg[1]
            report_type == out.arg[2]
        IN  /\ report_type = "" => out.ret = "True"
            /\ (report_type # "" /\ (text.len < 25 \/ text.words < 4)) => out.ret = "False"
            /\ (report_type # "" /\ text.len >= 25 /\ text.words >= 4
                    /\ (text.lines >= 2 \/ text.len > 100)) => out.ret = "True"

(* a text of more than 100 characters and fewer than four words was       *)
(* rejected                                                               *)
LongTextRejected ==
    /\ out.op = "validate_report_data" /\ out.ret = "False"
    /\ out.arg[1].len > 100 /\ out.arg[2] \in ReportTypes

----------------------------------------------------------------------------
(* Free text that is obviously no answer, checked on Spec *)

(* the handlers of the states that accept free text: the free-form block *)
(* and the guided questions                                              *)
FreeTextHandlers ==
    {"collect_data", "collect_name", "collect_age", "collect_gender",
     "collect_description", "collect_last_seen_location", "collect_last_seen_time",
     "collect_medical_info", "collect_people_count", "collect_injuries",
     "collect_building_condition", "collect_relationship", "collect_current_location"}

(* the input o.arg of the handler o.op is too short or a bare greeting *)
ObviouslyInvalid(o) ==
    /\ o.op \in FreeTextHandlers
    /\ o.ret # "error"
    /\ IF o.op = "collect_data"
       THEN o.arg.len < 25 \/ o.arg.greeting
       ELSE o.arg \in {"x", "hi"}

(* C31: in every state that accepts free text (the free-form block and   *)
(* each guided question), an input that is too short or a bare greeting  *)
(* leaves the session in the same state, stores nothing in the scratch   *)
(* data and asks again; it never advances the flow.                      *)
C31_InvalidTextAsksAgain ==
    [][ObviouslyInvalid(out') =>
            /\ state'[out'.uid] = state[out'.uid]
            /\ user_data'[out'.uid] = user_data[out'.uid]
            /\ out'.ret = state[out'.uid]]_vars

(* what holds: the free-form block and a name of one character *)
InvalidBlockOrNameAsksAgain ==
    [][(ObviouslyInvalid(out') /\ (out'.op = "collect_data" \/ out'.arg = "x")) =>
            /\ state'[out'.uid] = state[out'.uid]
            /\ user_data'[out'.uid] = user_data[out'.uid]
            /\ out'.ret = state[out'.uid]]_vars

(* a greeting was stored as the age and the next question asked *)
GreetingStoredAsAge ==
    /\ out.op = "collect_age" /\ out.arg = "hi" /\ out.ret = "COLLECT_GENDER"
    /\ "age" \in user_data[out.uid].form

----------------------------------------------------------------------------
(* The publication of finalized reports, checked on SpecIds: two intakes *)
(* of one reporter, whose reports may get the same id                    *)

(* the positions up to n of relay at which name was called for the report *)
CallsUpTo(n, name, report_id) ==
    {i \in 1..n : relay[i] = Call(name, report_id)}

(* C32: for each finalized report the publication is invoked at most      *)
(* once, and only after the persistence attempt for that report has       *)
(* returned: a publication follows the save_report of its report at       *)
(* once, and at every point there are no more publications of a report    *)
(* than calls of save_report for it.  Nothing is published for an intake  *)
(* that was cancelled or abandoned, or is still going on: the             *)
(* publications and the intakes going on are together no more than the    *)
(* intakes begun.                                                         *)
C32_PublishedOnceAfterSave ==
    /\ \A n \in 1..Len(relay) :
          relay[n].call = "send_report_to_channel" =>
              /\ n > 1 /\ relay[n - 1] = Call("save_report", relay[n].report_id)
              /\ Cardinality(CallsUpTo(n, "send_report_to_channel", relay[n].report_id))
                    <= Cardinality(CallsUpTo(n, "save_report", relay[n].report_id))
    /\ Cardinality({n \in 1..Len(relay) : relay[n].call = "send_report_to_channel"})
            + Cardinality({u \in Users : state[u] \in IntakeStates})
          <= intakes

(* two intakes were begun, the first was cancelled or abandoned, the     *)
(* second has just been finalized and its report published               *)
C32_Witness ==
    /\ intakes = MaxIdIntakes
    /\ out.op = "finalize_report"
    /\ relay = FinalizeCalls(relay[1].report_id)

----------------------------------------------------------------------------
(* The guided Offer Help intake, checked on Spec *)

(* the states of the guided Offer Help intake in the order of the        *)
(* transition table, from the first question to UrgencySelect            *)
OfferHelpOrder ==
    <<"COLLECT_NAME", "COLLECT_HELP_TYPE", "COLLECT_RESOURCES", "COLLECT_AVAILABILITY",
      "COLLECT_CONTACT_INFO", "SELECT_URGENCY">>

(* a handler of the intake has answered user u, whose report type is     *)
(* Offer Help, and has not asked the same question again                 *)
OfferHelpStep(u) ==
    /\ GetKey(user_data[u], "report_type", "") = "Offer Help"
    /\ out'.uid = u /\ out'.op \notin {"cancel", "restore_main_menu"}
    /\ out'.ret # state[u]

(* C33: in the guided Offer Help intake the session goes from            *)
(* CollectName directly to CollectHelpType, then to CollectResources,    *)
(* CollectAvailability, CollectContactInfo and UrgencySelect, whichever  *)
(* way the ExactLocation step was resolved: every resolution of          *)
(* ExactLocation leads to CollectName, and every answered question to    *)
(* the next state of the order.                                          *)
C33_OfferHelpOrder ==
    [][\A u \in Users :
          OfferHelpStep(u) =>
              /\ \A k \in 1..(Len(OfferHelpOrder) - 1) :
                    state[u] = OfferHelpOrder[k] => state'[u] = OfferHelpOrder[k + 1]
              /\ state[u] = "COLLECT_EXACT_LOCATION" =>
                    state'[u] \in {"COLLECT_CUSTOM_COORDINATES", "COLLECT_NAME"}
              /\ state[u] = "COLLECT_CUSTOM_COORDINATES" => state'[u] = "COLLECT_NAME"]_vars

(* what the handlers do: none of the three Offer Help questions is ever  *)
(* asked, and a name given for Offer Help is followed by the age         *)
HelpQuestionsNeverAsked ==
    \A u \in Users :
        state[u] \notin {"COLLECT_HELP_TYPE", "COLLECT_RESOURCES", "COLLECT_AVAILABILITY"}

(* the age is asked of a user who offers help *)
OfferHelpAskedAge ==
    \E u \in Users :
        /\ GetKey(user_data[u], "report_type", "") = "Offer Help"
        /\ state[u] = "COLLECT_AGE" /\ out.op = "collect_name"

----------------------------------------------------------------------------
(* The forwarding of a composed message, checked on SpecContact *)

(* user uid owns a stored report with this id *)
OwnerOf(report_id, uid) ==
    \E T \in Persisted : report_id \in DOMAIN T /\ T[report_id].user_id = uid

ContactTarget == {"contact_report_id", "contact_user_id"}

(* between scratch data d and d2 a key of the contact target was written *)
TargetWritten(d, d2) ==
    \E k \in ContactTarget : Has(d2, k) /\ (~Has(d, k) \/ d2[k] # d[k])

----------------------------------------------------------------------------
(* The search by name, checked on Spec *)

(* user u has sent a term in the name-search step and was answered by    *)
(* search_missing_person                                                 *)
SearchedByName(u) ==
    /\ state[u] = "SEARCH_MISSING_PERSON"
    /\ out'.op = "search_missing_person" /\ out'.uid = u

(* C35: search_missing_people returns an empty sequence, never an error, *)
(* when no report matches the query, and also when the primary store     *)
(* raises or cannot be reached; the name-search step then answers that   *)
(* nothing matches and ends the flow.                                    *)
C35_SearchFailureIsEmpty ==
    [][\A u \in Users :
          SearchedByName(u) =>
              /\ \A o \in SearchOutcomes :
                    LET r == search_missing_people(primary, dbReady, out'.arg, o[1], o[2])
                    IN  /\ r.ret = "list"
                        /\ (MissingPeople(primary, out'.arg) = {}
                                \/ StoreUnreachable(dbReady, o[1], o[2])) => r.rows = {}
              /\ out'.ret # "error"
              /\ (MissingPeople(primary, out'.arg) = {} \/ out'.path = "unreachable") =>
                    (out'.ret = "No matching reports" /\ state'[u] = "END")]_vars

(* a Missing Person report that matches the term is in the primary store, *)
(* neither query reached it, and the user was told that nothing matches   *)
C35_Witness ==
    /\ out.op = "search_missing_person" /\ out.path = "unreachable"
    /\ dbReady /\ MissingPeople(primary, out.arg) # {}
    /\ out.ret = "No matching reports" /\ state[out.uid] = "END"

----------------------------------------------------------------------------
(* What the handlers write to the stores, checked on Spec *)

(* the handlers of the status update, which write the status of a report *)
(* that is stored                                                        *)
StatusHandlers == {"update_report_status", "choose_status"}

(* no report is added to the table: it has the ids it had, and under     *)
(* each id the report it had, but for the status                         *)
NothingAdded(T, T2) ==
    /\ DOMAIN T2 = DOMAIN T
    /\ \A k \in DOMAIN T : [T2[k] EXCEPT !.status = T[k].status] = T[k]

(* C36: only the Finalize step adds a report to any store.  Every other  *)
(* handler (type and region selection, every field-collection step,      *)
(* urgency selection, cancel, the searches, the contact steps) leaves    *)
(* the primary store and the fallback tables unchanged, and the status   *)
(* update adds no report; so an intake that is cancelled or abandoned    *)
(* before Finalize leaves no report behind, although its report id was   *)
(* already generated and shown.                                          *)
C36_OnlyFinalizeAddsReports ==
    [][out'.op # "finalize_report" =>
          /\ \A T \in {<<primary, primary'>>, <<dbREPORTS, dbREPORTS'>>,
                       <<hREPORTS, hREPORTS'>>} : NothingAdded(T[1], T[2])
          /\ out'.op \notin StatusHandlers =>
                UNCHANGED <<primary, dbREPORTS, hREPORTS>>]_vars

(* an intake whose report id has been generated and whose urgency has   *)
(* been selected was abandoned by /menu, and no table holds a report     *)
C36_Witness ==
    /\ out.op = "restore_main_menu"
    /\ Has(user_data[out.uid], "report_id")
    /\ Has(user_data[out.uid], "urgency")
    /\ \A T \in Persisted : DOMAIN T = {}

(* the Missing Person reports matching the term that are held in the     *)
(* facade's in-memory table only: their write to the primary store failed *)
HeldInFallbackOnly(term) == MissingPeople(dbREPORTS, term) \ DOMAIN primary

(* C37: a Missing Person report whose details contain the query is       *)
(* returned by the name search through search_missing_people also when   *)
(* it is held only in the in-memory fallback tier: whatever the queries  *)
(* of the primary store give, the rows returned include it and the       *)
(* name-search step shows results.                                       *)
C37_NameSearchReadsFallback ==
    [][\A u \in Users :
          (SearchedByName(u) /\ HeldInFallbackOnly(out'.arg) # {}) =>
              /\ \A o \in SearchOutcomes :
                    HeldInFallbackOnly(out'.arg) \subseteq
                        search_missing_people(primary, dbReady, out'.arg, o[1], o[2]).rows
              /\ out'.ret = "results"]_vars

(* what the function does: it returns rows of the primary store only *)
NameSearchReadsPrimaryOnly ==
    \A term \in SearchTerms, o \in SearchOutcomes :
        search_missing_people(primary, dbReady, term, o[1], o[2]).rows \subseteq DOMAIN primary

(* a matching report is held in the fallback table only, and the user   *)
(* who searched for it was told that nothing matches                    *)
FallbackReportNotFound ==
    /\ out.op = "search_missing_person" /\ out.ret = "No matching reports"
    /\ HeldInFallbackOnly(out.arg) # {}

----------------------------------------------------------------------------
(* The values of a finalized report, checked on SpecIds with its two     *)
(* intakes of one session                                                *)

(* C38: a finalized report contains only values collected during its own *)
(* intake: none of the keys finalize_report reads (photo id, photo URL   *)
(* and path, details, urgency, location, report id, report type) holds a *)
(* value of an earlier intake of the session that ended by /menu, by a   *)
(* save that fell back to the handlers' in-memory store, or by a handler *)
(* error.                                                                *)
C38_ReportOfOwnIntake ==
    out.op = "finalize_report" => out.arg = {}

(* what holds: but for the photo URL and path, every value of a          *)
(* finalized report was collected during its intake                      *)
OnlyPhotoUrlIsStale ==
    out.op = "finalize_report" => out.arg \subseteq {"photo_url"}

(* the second report of a session was finalized without a photo and      *)
(* shown with the photo URL of the first                                 *)
SkippedPhotoHasUrl ==
    /\ out.op = "finalize_report" /\ out.arg = {"photo_url"}
    /\ \E s \in shown : s.rec.photo_id = None /\ s.rec.photo_url # None

----------------------------------------------------------------------------
(* The scratch data of a session at a guided question, checked on        *)
(* SpecIds, where a session begins a second intake after the first was   *)
(* cancelled, abandoned by /menu or finalized                            *)

(* ExactLocation, the custom-coordinates state and the states of the     *)
(* guided questions                                                      *)
FieldStates == IntakeStates \ {"CHOOSING_LOCATION", "COLLECTING_DATA", "SELECT_URGENCY", "PHOTO"}

----------------------------------------------------------------------------
(* Termination of get_postgres_connection.  psycopg2.connect returns      *)
(* within its connect_timeout and time.sleep returns: a handler inside a  *)
(* retry loop goes on to the end of the attempt it is making.             *)

SpecConnectionFair == SpecConnection /\ WF_vars(\E o \in ConnectOutcomes : connect(o))

(* a step of a retry loop: one connection attempt and what follows it *)
AttemptStep == call.loop # "" /\ call' # call

(* a step that begins a get_postgres_connection call *)
BeginStep == call.uid # 0 /\ call.loop = "" /\ call.todo # << >> /\ call' # call

(* C40: get_postgres_connection always terminates.  In each retry loop    *)
(* (one per host) an attempt is made only while retry_count is at most    *)
(* max_retries, so at most max_retries + 1 attempts; after a transient    *)
(* failure (DNS, timeout) that is not the last it sleeps current_delay,   *)
(* which starts at retry_delay and doubles each time, and stays in the    *)
(* loop; on any other error it leaves the loop at once, without a sleep;  *)
(* it returns None when the last loop is left without a connection, and   *)
(* the connection when an attempt succeeded; a cached connection that     *)
(* answers is returned without entering a loop.  A call inside a loop     *)
(* eventually is out of it.                                               *)
C40_ConnectionTerminates ==
    /\ [](call.loop # "" =>
            /\ call.retry_count <= max_retries
            /\ call.current_delay = retry_delay * 2^(call.retry_count))
    /\ [][AttemptStep =>
            /\ (call'.last \in {"dns", "timeout"} /\ call.retry_count < max_retries) =>
                    /\ call'.loop = call.loop
                    /\ call'.retry_count = call.retry_count + 1
                    /\ call'.slept = call.slept + call.current_delay
                    /\ call'.current_delay = 2 * call.current_delay
            /\ (call'.last \in {"dns", "timeout"} /\ call.retry_count = max_retries) =>
                    (call'.loop # call.loop /\ call'.slept = call.slept)
            /\ call'.last = "refused" =>
                    (call'.loop # call.loop /\ call'.slept = call.slept)
            /\ call'.last = "ok" =>
                    (call'.loop = "" /\ call'.ret = "pg_conn" /\ pg_conn' = "open")
            /\ (call'.loop = "" /\ call'.last # "ok") =>
                    (call'.ret = "None" /\ pg_conn' = None)]_vars
    /\ [][(BeginStep /\ call'.last = "live") =>
            /\ pg_conn = "open" /\ pg_conn' = "open"
            /\ call'.loop = "" /\ call'.ret = "pg_conn"
            /\ call'.slept = call.slept]_vars
    /\ (call.loop # "") ~> (call.loop = "")

(* a status update whose two retry loops were both exhausted by timeouts: *)
(* None was returned after 2 + 4 + 8 seconds of sleep in each             *)
C40_Witness ==
    /\ call.op = "update_report_status_in_db"
    /\ call.todo = << >>
    /\ call.ret = "None" /\ call.last = "timeout"
    /\ call.slept = 2 * (retry_delay + 2 * retry_delay + 4 * retry_delay)

====
